---------------------------- MODULE Spec2Model ----------------------------
(***************************************************************************)
(* Wellness-Forever pharmacy application: the dual-path data-access layer  *)
(* (PharmacyAPI in utils/supabase/client.tsx), the remote handlers         *)
(* (supabase/functions/server/index.tsx), the local store                  *)
(* (LocalStorageManager) and the sales screen (components/SalesBilling).   *)
(*                                                                         *)
(* Conventions of the model                                                *)
(*  - a JavaScript object is a record; a field that is undefined is a      *)
(*    field the record does not have; null is the record Null;             *)
(*  - a text field is a sequence of one-character strings, so that trim()  *)
(*    and length tests are computed and not assumed;                       *)
(*  - money is counted in cents (the remote column is DECIMAL(10,2));      *)
(*  - new Date() reads the variable clock, which the action Tick advances; *)
(*  - ids are strings: the remote tables draw theirs from the database     *)
(*    (gen_random_uuid(), here "u1", "u2", ...), the client's generateId() *)
(*    gives "id_1", "id_2", ..., the built-in samples are "med_001", ...   *)
(*  - a network failure is a request that never reaches its handler.       *)
(***************************************************************************)
EXTENDS Integers, Sequences, FiniteSets, TLC

VARIABLES
    clock,        \* the time new Date() / NOW() returns
    dbInit,       \* whether the simplified schema (table meds, ...) is installed
    meds,         \* remote table meds: id -> row
    stock_moves,  \* remote table stock_moves, oldest first
    sales,        \* remote table sales, oldest first
    sale_items,   \* remote table sale_items, oldest first
    storage,      \* LocalStorageManager.data: entity name -> array
    calls,        \* the PharmacyAPI calls: position, arguments, handler locals, outcome
    nids,         \* how many ids generateId() has handed out
    medicines,    \* SalesBilling: the medicine list the screen shows
    cart,         \* SalesBilling: the cart
    toasts,       \* the messages the screens have shown with toast.error
    medicineForm, \* the inventory screen: what the medicine form holds
    localStorage, \* the browser's item "pharmacy_data", Null while there is none
    tabs,         \* the browser sessions: each one's LocalStorageManager.data and the
                  \* list its prescription screen shows
    setupStatus,  \* DatabaseSetupNotice: 'pending', 'success' or 'manual_required'
    validation    \* the Data Validation tests: the validator run last, its input and
                  \* its result; Null before the first

vars == <<clock, dbInit, meds, stock_moves, sales, sale_items, storage, calls, nids,
          medicines, cart, toasts, medicineForm, localStorage, tabs, setupStatus,
          validation>>

envVars == <<clock, dbInit>>

remoteVars == <<meds, stock_moves, sales, sale_items>>

uiVars == <<medicines, cart, toasts, medicineForm>>

browserVars == <<localStorage, tabs, setupStatus, validation>>

pageVars == <<setupStatus, validation>>

-----------------------------------------------------------------------------
(* Bounds of the model *)

MaxCalls == 2
MaxStock == 2
MaxClock == 1
MaxSales == 1
MaxIds == 5
MaxTabs == 2

\* the calls, in the order they are started
Calls == 1..MaxCalls
\* the browser sessions that share the local storage item
Tabs == 1..MaxTabs
\* the quantities asked for: one unit, and all that a full shelf holds
Quantities == {1, MaxStock}
StockVals == 0..MaxStock

-----------------------------------------------------------------------------
(* JavaScript helpers *)

Null == [isNull |-> TRUE]

\* {}, and an object whose fields are all undefined
EmptyObject == [f \in {} |-> Null]

Max(a, b) == IF a >= b THEN a ELSE b

\* { ...a, ...b }: the fields of b win
Spread(a, b) == [f \in DOMAIN a \cup DOMAIN b |-> IF f \in DOMAIN b THEN b[f] ELSE a[f]]

RECURSIVE TrimLeft(_)
TrimLeft(s) == IF s # <<>> /\ Head(s) = " " THEN TrimLeft(Tail(s)) ELSE s

RECURSIVE TrimRight(_)
TrimRight(s) == IF s # <<>> /\ s[Len(s)] = " " THEN TrimRight(SubSeq(s, 1, Len(s) - 1)) ELSE s

Trim(s) == TrimRight(TrimLeft(s))

generateId(n) == "id_" \o ToString(n)

\* a || b on numbers: 0 and NaN are falsy
OrElse(a, b) == IF a # 0 THEN a ELSE b

\* parseInt(o.f): the number, or NaN (which || treats as it treats 0) when o has no f
parseInt(o, f) == IF f \in DOMAIN o THEN o[f] ELSE 0

\* parseFloat(o.f), likewise; money is in cents
parseFloat(o, f) == IF f \in DOMAIN o THEN o[f] ELSE 0

\* the fields fs of o that o has
Pick(o, fs) == [f \in fs \cap DOMAIN o |-> o[f]]

\* the characters of the model's texts, in code order
Chars == <<" ", "(", ")", "+", "-", "0", "1", "5", "A", "C", "D", "J", "P",
           "a", "b", "h", "i", "m", "n", "o", "r", "x">>

charCode(ch) == CHOOSE k \in 1..Len(Chars) : Chars[k] = ch

\* s < t, character by character
RECURSIVE textLess(_, _)
textLess(s, t) ==
    IF t = <<>> THEN FALSE
    ELSE IF s = <<>> THEN TRUE
    ELSE IF Head(s) = Head(t) THEN textLess(Tail(s), Tail(t))
    ELSE charCode(Head(s)) < charCode(Head(t))

gen_random_uuid(n) == "u" \o ToString(n)

-----------------------------------------------------------------------------
(* Sample data *)

Paracetamol == <<"P", "a", "r", "a">>
Amoxicillin == <<"A", "m", "o", "x">>
PainRelief == <<"P", "a", "i", "n">>
PharmaCorp == <<"P", "h", "C", "o">>

sampleMedicines(s1, s2) ==
    << [id |-> "med_001", name |-> Paracetamol, category |-> PainRelief,
        manufacturer |-> PharmaCorp, stock |-> s1, minStock |-> 50, maxStock |-> 300,
        price |-> 599, strength |-> <<"5", "0", "0">>, createdAt |-> 0, updatedAt |-> 0],
       [id |-> "med_002", name |-> Amoxicillin, category |-> PainRelief,
        manufacturer |-> PharmaCorp, stock |-> s2, minStock |-> 30, maxStock |-> 150,
        price |-> 1250, strength |-> <<"5", "0">>, createdAt |-> 0, updatedAt |-> 0] >>

\* the row INSERT INTO meds gives the sample medicine; a column that is NULL is a
\* field the row does not have
sampleRow(id, s) ==
    [id |-> id, name |-> IF id = "u1" THEN Paracetamol ELSE Amoxicillin, cat |-> PainRelief, mfg |-> PharmaCorp,
     stock |-> s, min_stock |-> 50, max_stock |-> 300, price |-> 599,
     strength |-> <<"5", "0", "0">>, active |-> TRUE, created |-> 0, updated |-> 0]

-----------------------------------------------------------------------------
(* LocalStorageManager *)

RECURSIVE findIndex(_, _, _)
findIndex(arr, id, i) ==
    IF i > Len(arr) THEN -1
    ELSE IF arr[i].id = id THEN i
    ELSE findIndex(arr, id, i + 1)

storageGet(key) == storage[key]

storageAdd(data, key, item) == [data EXCEPT ![key] = Append(@, item)]

\* an update that pushes the merged item instead of replacing it
storageUpdatePush(data, key, id, updates) ==
    LET index == findIndex(data[key], id, 1)
    IN IF index # -1
       THEN [data EXCEPT ![key] = Append(@, Spread(@[index], updates))]
       ELSE data

storageUpdate(data, key, id, updates) ==
    LET index == findIndex(data[key], id, 1)
    IN IF index # -1
       THEN [data EXCEPT ![key][index] = Spread(@, updates)]
       ELSE data

\* what update() returns: the updated item, or null
storageUpdated(data, key, id, updates) ==
    LET index == findIndex(data[key], id, 1)
    IN IF index # -1 THEN Spread(data[key][index], updates) ELSE Null

\* a delete that leaves the array as it is
storageDeleteNothing(data, key, id) == data

\* delete(): the items of another id
storageDelete(data, key, id) ==
    [data EXCEPT ![key] = SelectSeq(@, LAMBDA item : item.id # id)]

LocalIds(key) == {storage[key][i].id : i \in 1..Len(storage[key])}

LocalItem(key, id) == storage[key][findIndex(storage[key], id, 1)]


-----------------------------------------------------------------------------
(* Remote handlers: field renaming *)

\* "Transform data to match frontend expectations"
transformMedicine(med) ==
    Spread([id |-> med.id, name |-> med.name, category |-> med.cat, manufacturer |-> med.mfg,
            current_stock |-> med.stock, minimum_stock |-> med.min_stock,
            maximum_stock |-> med.max_stock, unit_price |-> med.price,
            is_active |-> med.active, created_at |-> med.created,
            updated_at |-> med.updated],
           Pick(med, {"strength"}))

-----------------------------------------------------------------------------
(* The PharmacyAPI calls *)

NoSale == [items |-> <<>>, total |-> 0]

IdleCall ==
    [pc |-> "idle", op |-> "none", id |-> "none", quantity |-> 0, type |-> "none",
     medicine |-> Null, newStatus |-> "none", ticket |-> Null, arg |-> Null,
     sale |-> NoSale, previousStock |-> 0, i |-> 0, saleRow |-> Null,
     status |-> 0, serverError |-> "none",
     path |-> "none", ok |-> FALSE, error |-> "none", value |-> Null,
     solo |-> FALSE, before |-> Null]

Active(c) == calls[c].pc \notin {"idle", "done", "shown"}

\* the stocks of both stores
Stocks ==
    [remote |-> [id \in DOMAIN meds |-> meds[id].stock],
     local |-> [id \in LocalIds("medicines") |-> LocalItem("medicines", id).stock]]

\* a backend that is given up once a call has been served by the local store
useBackendUntilFailure == \A c \in DOMAIN calls : calls[c].path # "local"

\* PharmacyAPI.useBackend: set where it is declared and nowhere else (client.tsx 200)
useBackend == TRUE

\* tryBackend throws: the response is not ok, or fetch itself failed
Failed(call, status, message) ==
    [call EXCEPT !.pc = "fallback", !.status = status, !.serverError = message]

\* the promise resolves with a handler's JSON or with the fallback's result
Resolved(call, path, value) ==
    [call EXCEPT !.pc = "done", !.path = path, !.ok = TRUE, !.value = value,
                 !.status = IF path = "remote" THEN 200 ELSE @]

\* the promise rejects
Rejected(call, message) ==
    [call EXCEPT !.pc = "done", !.path = "local", !.ok = FALSE, !.error = message]

NotInitialized == "Database not initialized with simplified schema"

\* time passes
Tick ==
    /\ clock < MaxClock
    /\ clock' = clock + 1
    /\ UNCHANGED <<dbInit, browserVars, remoteVars, storage, calls, nids, uiVars>>

-----------------------------------------------------------------------------
(* Medicines: client.tsx getMedicines, addMedicine; index.tsx GET, POST /medicines *)

\* a validator that does not compare the minimum with the maximum
validateMedicineLax(data) ==
    /\ Len(Trim(data.name)) >= 2
    /\ Len(Trim(data.category)) >= 2
    /\ Len(Trim(data.manufacturer)) >= 2
    /\ "stock" \in DOMAIN data => data.stock >= 0
    /\ "minStock" \in DOMAIN data => data.minStock >= 0
    /\ "maxStock" \in DOMAIN data => data.maxStock >= 0
    /\ "price" \in DOMAIN data => data.price >= 0

\* a validator that does not look at the price
validateMedicineAnyPrice(data) ==
    /\ Len(Trim(data.name)) >= 2
    /\ Len(Trim(data.category)) >= 2
    /\ Len(Trim(data.manufacturer)) >= 2
    /\ "stock" \in DOMAIN data => data.stock >= 0
    /\ "minStock" \in DOMAIN data => data.minStock >= 0
    /\ "maxStock" \in DOMAIN data => data.maxStock >= 0
    /\ {"minStock", "maxStock"} \subseteq DOMAIN data => data.minStock < data.maxStock

\* validation.ts validateMedicine, on the fields the model carries
validateMedicine(data) ==
    /\ Len(Trim(data.name)) >= 2
    /\ Len(Trim(data.category)) >= 2
    /\ Len(Trim(data.manufacturer)) >= 2
    /\ "stock" \in DOMAIN data => data.stock >= 0
    /\ "minStock" \in DOMAIN data => data.minStock >= 0
    /\ "maxStock" \in DOMAIN data => data.maxStock >= 0
    /\ {"minStock", "maxStock"} \subseteq DOMAIN data => data.minStock < data.maxStock
    /\ "price" \in DOMAIN data => data.price >= 0

\* client.tsx 259-264
newMedicine(medicine, n) ==
    Spread(Spread([id |-> generateId(n)], medicine), [createdAt |-> clock, updatedAt |-> clock])

\* index.tsx 148-159: the handler's answer to a request it refuses, or "none"
medicineRequestError(medicine) ==
    IF "name" \notin DOMAIN medicine \/ Len(Trim(medicine.name)) < 2
    THEN "Medicine name must be at least 2 characters long"
    ELSE IF "category" \notin DOMAIN medicine \/ Len(Trim(medicine.category)) < 2
    THEN "Category must be at least 2 characters long"
    ELSE IF "manufacturer" \notin DOMAIN medicine \/ Len(Trim(medicine.manufacturer)) < 2
    THEN "Manufacturer must be at least 2 characters long"
    ELSE "none"

\* o.strength?.trim() || null as a column: the trimmed text, or NULL for a strength
\* that is missing or blank (index.tsx 164, 229)
strengthOf(o) ==
    IF "strength" \in DOMAIN o /\ Trim(o.strength) # <<>>
    THEN [strength |-> Trim(o.strength)]
    ELSE EmptyObject

\* UPDATE ... SET strength: the column takes the value, or NULL
setStrength(row, updates) ==
    Spread([f \in DOMAIN row \ {"strength"} |-> row[f]], strengthOf(updates))

\* index.tsx 161-173, on the columns the model carries
medicineData(medicine) ==
    Spread([name |-> Trim(medicine.name), cat |-> Trim(medicine.category),
            mfg |-> Trim(medicine.manufacturer),
            stock |-> OrElse(parseInt(medicine, "stock"),
                             OrElse(parseInt(medicine, "current_stock"), 0)),
            min_stock |-> OrElse(parseInt(medicine, "minStock"),
                                 OrElse(parseInt(medicine, "minimum_stock"), 10)),
            max_stock |-> OrElse(parseInt(medicine, "maxStock"),
                                 OrElse(parseInt(medicine, "maximum_stock"), 100)),
            price |-> OrElse(parseFloat(medicine, "price"),
                             OrElse(parseFloat(medicine, "unit_price"), 0))],
           strengthOf(medicine))

\* INSERT INTO meds: the columns given, the others from the table's defaults
insertMed(data, n) ==
    Spread([id |-> gen_random_uuid(n), stock |-> 0, min_stock |-> 10, max_stock |-> 100,
            price |-> 0, active |-> TRUE, created |-> clock, updated |-> clock], data)

\* the catch of addMedicine (client.tsx 271-274)
addMedicineCatch(call) ==
    [storage |-> storageAdd(storage, "medicines", call.medicine),
     call |-> Resolved(call, "local", [medicine |-> call.medicine])]

\* the lists .eq('active', true).order('name') can give: the active rows, by name,
\* rows of equal name in any order (index.tsx 91-95)
activeByName ==
    LET ids == {id \in DOMAIN meds : meds[id].active}
        n == Cardinality(ids)
    IN {list \in [1..n -> ids] :
          /\ \A i, j \in 1..n : i # j => list[i] # list[j]
          /\ \A i, j \in 1..n : i < j => ~textLess(meds[list[j]].name, meds[list[i]].name)}

\* what GET /medicines answers (index.tsx 113-135)
medicinesResponse(list) ==
    [medicines |-> [i \in 1..Len(list) |-> transformMedicine(meds[list[i]])],
     dbStatus |-> "ready"]

\* the catch of getMedicines (client.tsx 253-255)
getMedicinesCatch(call) ==
    [storage |-> storage,
     call |-> Resolved(call, "local", [medicines |-> storageGet("medicines")])]

-----------------------------------------------------------------------------
(* Stock update: client.tsx updateStock, index.tsx POST /medicines/:id/stock *)

\* index.tsx 318-324
validStockRequest(quantity, type) == quantity > 0 /\ type \in {"add", "subtract"}

\* index.tsx 341-343
handlerNewStock(previousStock, quantity, type) ==
    IF type = "add" THEN previousStock + quantity ELSE previousStock - quantity

\* a handler without the check of index.tsx 345
insufficientStockNever(newStock) == FALSE

\* index.tsx 345
insufficientStock(newStock) == newStock < 0

\* a fallback without Math.max(0, ...)
localNewStockNoClamp(stock, quantity, type) ==
    IF type = "add" THEN stock + quantity ELSE stock - quantity

\* client.tsx 315-317
localNewStock(stock, quantity, type) ==
    Max(0, IF type = "add" THEN stock + quantity ELSE stock - quantity)

\* a handler that decrements the row as it is now (an atomic update)
stockToWriteAtomic(call, row) == handlerNewStock(row.stock, call.quantity, call.type)

\* what the handler's update statement stores (index.tsx 353-361): the value it
\* computed from its own read; row is the row as it is now
stockToWrite(call, row) ==
    handlerNewStock(call.previousStock, call.quantity, call.type)

\* the handler up to its decision (index.tsx 315-350)
stockHandlerRead(call) ==
    IF ~validStockRequest(call.quantity, call.type)
    THEN Failed(call, 400, "Quantity must be a positive integer")
    ELSE IF ~dbInit THEN Failed(call, 400, NotInitialized)
    ELSE IF call.id \notin DOMAIN meds THEN Failed(call, 404, "Medicine not found")
    ELSE IF insufficientStock(handlerNewStock(meds[call.id].stock, call.quantity, call.type))
    THEN Failed([call EXCEPT !.previousStock = meds[call.id].stock], 400, "Insufficient stock")
    ELSE [call EXCEPT !.pc = "stock_write", !.previousStock = meds[call.id].stock]

\* a fallback that resolves with whatever update() returns
updateStockCatchQuiet(call) ==
    LET updates == [updatedAt |-> clock]
    IN [storage |-> storageUpdate(storage, "medicines", call.id, updates),
        call |-> Resolved(call, "local",
                   [medicine |-> storageUpdated(storage, "medicines", call.id, updates)])]

\* the catch of updateStock (client.tsx 311-323): the store and the call after it
updateStockCatch(call) ==
    IF call.id \in LocalIds("medicines")
    THEN LET medicine == LocalItem("medicines", call.id)
             updates == [stock |-> localNewStock(medicine.stock, call.quantity, call.type),
                         updatedAt |-> clock]
         IN [storage |-> storageUpdate(storage, "medicines", call.id, updates),
             call |-> Resolved([call EXCEPT !.previousStock = medicine.stock], "local",
                        [medicine |-> storageUpdated(storage, "medicines", call.id, updates)])]
    ELSE [storage |-> storage, call |-> Rejected(call, "Medicine not found")]

-----------------------------------------------------------------------------
(* Sales: client.tsx createSale, index.tsx POST /sales *)

Customer == <<"J", "o">>

\* a total that forgets the quantities
calculateTotalOfPrices(items) ==
    LET RECURSIVE reduce(_, _)
        reduce(i, total) ==
            IF i > Len(items) THEN total
            ELSE reduce(i + 1, total + items[i].price)
    IN reduce(1, 0)

\* SalesBilling.tsx 147-149
calculateTotal(items) ==
    LET RECURSIVE reduce(_, _)
        reduce(i, total) ==
            IF i > Len(items) THEN total
            ELSE reduce(i + 1, total + items[i].price * items[i].quantity)
    IN reduce(1, 0)

\* SalesBilling.tsx 158-164
saleData(items, paymentMethod) ==
    [customerName |-> Customer, customerPhone |-> <<>>, items |-> items,
     total |-> calculateTotal(items), paymentMethod |-> paymentMethod]

\* client.tsx 336-340
newSale(sale, n) == Spread(Spread([id |-> generateId(n)], sale), [timestamp |-> clock])

\* index.tsx 472-478: the row of table sales
saleRow(sale, n) ==
    [id |-> gen_random_uuid(n), sale_no |-> n, cust_name |-> sale.customerName,
     cust_phone |-> sale.customerPhone, total |-> sale.total,
     payment |-> IF sale.paymentMethod = "" THEN "cash" ELSE sale.paymentMethod,
     sale_date |-> clock]

\* index.tsx 549-557
transformSale(row) ==
    [id |-> row.id, customerName |-> row.cust_name, customerPhone |-> row.cust_phone,
     total |-> row.total, paymentMethod |-> row.payment, timestamp |-> row.sale_date,
     saleNumber |-> row.sale_no]

\* index.tsx 518
saleStockOk(newStock) == newStock >= 0

\* after item i: the next item, or the answer (index.tsx 490, 548-558)
NextItem(call) ==
    IF call.i < Len(call.sale.items)
    THEN [call EXCEPT !.pc = "item_read", !.i = @ + 1]
    ELSE Resolved(call, "remote", [sale |-> transformSale(call.saleRow)])

\* the catch of createSale (client.tsx 347-350): the store and the call after it
createSaleCatch(call) ==
    [storage |-> storageAdd(storage, "sales", call.sale),
     call |-> Resolved(call, "local", [sale |-> call.sale])]

-----------------------------------------------------------------------------
(* Prescriptions and tickets: client.tsx updatePrescriptionStatus, createTicket,    *)
(* updateTicketStatus.  The server has no route for any of the three.               *)

NotFound == "HTTP 404: Not Found"

\* the catch of updatePrescriptionStatus (client.tsx 398-404)
updatePrescriptionStatusCatch(call) ==
    LET updates == [status |-> call.newStatus, updatedAt |-> clock]
    IN [storage |-> storageUpdate(storage, "prescriptions", call.id, updates),
        call |-> Resolved(call, "local",
                   [prescription |-> storageUpdated(storage, "prescriptions", call.id, updates)])]

\* client.tsx 495-501
newTicket(ticket, n) ==
    Spread(Spread([id |-> generateId(n)], ticket),
           [status |-> "open", createdAt |-> clock, updatedAt |-> clock])

\* the catch of createTicket (client.tsx 508-511)
createTicketCatch(call) ==
    [storage |-> storageAdd(storage, "tickets", call.ticket),
     call |-> Resolved(call, "local", [ticket |-> call.ticket])]

\* the catch of updateTicketStatus (client.tsx 520-526)
updateTicketStatusCatch(call) ==
    LET updates == [status |-> call.newStatus, updatedAt |-> clock]
    IN [storage |-> storageUpdate(storage, "tickets", call.id, updates),
        call |-> Resolved(call, "local",
                   [ticket |-> storageUpdated(storage, "tickets", call.id, updates)])]

-----------------------------------------------------------------------------
(* The fallbacks of the other methods of PharmacyAPI *)

\* the catch of updateMedicine (client.tsx 278-291); arg is the updates
updateMedicineCatch(call) ==
    LET updated == Spread(call.arg, [updatedAt |-> clock])
    IN [storage |-> storageUpdate(storage, "medicines", call.id, updated),
        call |-> Resolved(call, "local",
                   [medicine |-> storageUpdated(storage, "medicines", call.id, updated)])]

\* the catch of deleteMedicine (client.tsx 299-302)
deleteMedicineCatch(call) ==
    [storage |-> storageDelete(storage, "medicines", call.id),
     call |-> Resolved(call, "local", [success |-> TRUE])]

\* the catch of getSales (client.tsx 330-332)
getSalesCatch(call) ==
    [storage |-> storage, call |-> Resolved(call, "local", [sales |-> storageGet("sales")])]

\* the catch of getSaleById (client.tsx 356-360): find() gives undefined for no match
getSaleByIdCatch(call) ==
    LET index == findIndex(storageGet("sales"), call.id, 1)
    IN [storage |-> storage,
        call |-> Resolved(call, "local",
                   IF index # -1 THEN [sale |-> storageGet("sales")[index]]
                   ELSE EmptyObject)]

\* the catch of getPrescriptions (client.tsx 367-369)
getPrescriptionsCatch(call) ==
    [storage |-> storage,
     call |-> Resolved(call, "local", [prescriptions |-> storageGet("prescriptions")])]

\* client.tsx 373-379
newPrescription(prescription, n) ==
    Spread(Spread([id |-> generateId(n)], prescription),
           [status |-> "pending", createdAt |-> clock, updatedAt |-> clock])

\* the catch of addPrescription (client.tsx 386-389); arg is the new prescription
addPrescriptionCatch(call) ==
    [storage |-> storageAdd(storage, "prescriptions", call.arg),
     call |-> Resolved(call, "local", [prescription |-> call.arg])]

\* the catch of verifyPrescription (client.tsx 413-423); arg is the verification
verifyPrescriptionCatch(call) ==
    LET updates == [verification |-> Spread(call.arg, [timestamp |-> clock]),
                    status |-> IF call.arg.approved THEN "verified" ELSE "rejected",
                    updatedAt |-> clock]
    IN [storage |-> storageUpdate(storage, "prescriptions", call.id, updates),
        call |-> Resolved(call, "local",
                   [prescription |-> storageUpdated(storage, "prescriptions", call.id, updates)])]

\* the catch of getEmployees (client.tsx 430-432)
getEmployeesCatch(call) ==
    [storage |-> storage,
     call |-> Resolved(call, "local", [employees |-> storageGet("employees")])]

\* client.tsx 436-441
newEmployee(employee, n) ==
    Spread(Spread([id |-> generateId(n)], employee), [createdAt |-> clock, updatedAt |-> clock])

\* the catch of addEmployee (client.tsx 448-451); arg is the new employee
addEmployeeCatch(call) ==
    [storage |-> storageAdd(storage, "employees", call.arg),
     call |-> Resolved(call, "local", [employee |-> call.arg])]

\* the catch of clockIn and of clockOut (client.tsx 459-462, 470-473)
clockCatch(call) ==
    [storage |-> storage, call |-> Resolved(call, "local", [success |-> TRUE])]

\* the catch of getTimeEntries (client.tsx 480-482)
getTimeEntriesCatch(call) ==
    [storage |-> storage, call |-> Resolved(call, "local", [timeEntries |-> <<>>])]

\* the catch of getTickets (client.tsx 489-491)
getTicketsCatch(call) ==
    [storage |-> storage, call |-> Resolved(call, "local", [tickets |-> storageGet("tickets")])]

-----------------------------------------------------------------------------
(* The fallbacks of the dashboard and of the reports.  Time is counted in days: the *)
(* date of a timestamp is the timestamp.                                            *)

dateOf(t) == t

\* how many items of arr satisfy Test
Count(arr, Test(_)) == Cardinality({k \in 1..Len(arr) : Test(arr[k])})

\* arr.reduce((sum, x) => sum + (Of(x) || 0), 0)
SumOf(arr, Of(_)) ==
    LET RECURSIVE reduce(_, _)
        reduce(i, sum) == IF i > Len(arr) THEN sum ELSE reduce(i + 1, sum + Of(arr[i]))
    IN reduce(1, 0)

\* sale.total || 0
totalOf(sale) == IF "total" \in DOMAIN sale THEN sale.total ELSE 0

\* m.minStock || 10
minStockOf(m) == OrElse(parseInt(m, "minStock"), 10)

\* arr.slice(-n)
lastItems(arr, n) == SubSeq(arr, Max(1, Len(arr) - n + 1), Len(arr))

\* arr.slice(0, n)
firstItems(arr, n) == SubSeq(arr, 1, IF Len(arr) < n THEN Len(arr) ELSE n)

\* sort((a, b) => b.timestamp - a.timestamp): latest first, equal ones in their order
RECURSIVE latestFirst(_)
latestFirst(arr) ==
    IF arr = <<>> THEN <<>>
    ELSE LET rest == latestFirst(SubSeq(arr, 1, Len(arr) - 1))
             x == arr[Len(arr)]
         IN SelectSeq(rest, LAMBDA y : y.timestamp >= x.timestamp) \o <<x>>
            \o SelectSeq(rest, LAMBDA y : y.timestamp < x.timestamp)

\* the catch of getDashboardStats (client.tsx 533-552)
getDashboardStatsCatch(call) ==
    LET todaySales == SelectSeq(storageGet("sales"),
                                LAMBDA sale : dateOf(sale.timestamp) = dateOf(clock))
    IN [storage |-> storage,
        call |-> Resolved(call, "local",
          [stats |->
             [totalMedicines |-> Len(storageGet("medicines")),
              todaySales |-> Len(todaySales),
              todayRevenue |-> SumOf(todaySales, totalOf),
              lowStockAlerts |-> Count(storageGet("medicines"),
                                       LAMBDA m : m.stock <= minStockOf(m)),
              pendingPrescriptions |-> Count(storageGet("prescriptions"),
                                             LAMBDA r : r.status = "pending")]])]

\* the catch of getRecentActivity (client.tsx 558-577)
getRecentActivityCatch(call) ==
    LET recentSales == lastItems(storageGet("sales"), 5)
        recentPrescriptions == lastItems(storageGet("prescriptions"), 5)
        activities ==
            [k \in 1..Len(recentSales) |->
               [type |-> "sale",
                description |-> [to |-> recentSales[k].customerName,
                                 total |-> recentSales[k].total],
                timestamp |-> recentSales[k].timestamp]]
            \o [k \in 1..Len(recentPrescriptions) |->
                  [type |-> "prescription",
                   description |-> [for |-> recentPrescriptions[k].patientName,
                                    status |-> recentPrescriptions[k].status],
                   timestamp |-> recentPrescriptions[k].updatedAt]]
    IN [storage |-> storage,
        call |-> Resolved(call, "local",
                   [activities |-> firstItems(latestFirst(activities), 10)])]

\* one alert of getLowStockAlerts (client.tsx 586-592)
lowStockAlert(m) ==
    [id |-> m.id, name |-> m.name, currentStock |-> m.stock, minStock |-> minStockOf(m),
     severity |-> IF m.stock = 0 THEN "critical" ELSE IF m.stock < 5 THEN "high" ELSE "medium"]

\* the catch of getLowStockAlerts (client.tsx 583-596)
getLowStockAlertsCatch(call) ==
    LET low == SelectSeq(storageGet("medicines"), LAMBDA m : m.stock <= minStockOf(m))
    IN [storage |-> storage,
        call |-> Resolved(call, "local",
                   [alerts |-> [k \in 1..Len(low) |-> lowStockAlert(low[k])]])]

\* the catch of getSalesReport (client.tsx 603-619); arg is the period; the average
\* is taken to the cent below
getSalesReportCatch(call) ==
    LET filteredSales ==
            SelectSeq(storageGet("sales"),
                      LAMBDA sale : /\ dateOf(sale.timestamp) >= call.arg.start
                                    /\ dateOf(sale.timestamp) <= call.arg.end)
        totalRevenue == SumOf(filteredSales, totalOf)
    IN [storage |-> storage,
        call |-> Resolved(call, "local",
          [report |->
             [period |-> call.arg,
              totalSales |-> Len(filteredSales),
              totalRevenue |-> totalRevenue,
              averageOrderValue |-> IF Len(filteredSales) > 0
                                    THEN totalRevenue \div Len(filteredSales) ELSE 0,
              sales |-> filteredSales]])]

\* med.stock * med.price || 0
valueOf(med) == med.stock * med.price

\* the catch of getInventoryReport (client.tsx 626-636)
getInventoryReportCatch(call) ==
    LET meds_ == storageGet("medicines")
    IN [storage |-> storage,
        call |-> Resolved(call, "local",
          [report |->
             [totalItems |-> Len(meds_),
              totalValue |-> SumOf(meds_, valueOf),
              lowStockItems |-> Count(meds_, LAMBDA med : med.stock < minStockOf(med)),
              outOfStockItems |-> Count(meds_, LAMBDA med : med.stock = 0),
              medicines |-> meds_]])]

\* the catch of getEmployeeReport (client.tsx 643-650); arg is the month
getEmployeeReportCatch(call) ==
    [storage |-> storage,
     call |-> Resolved(call, "local",
                [report |-> [period |-> call.arg, employees |-> <<>>, timeEntries |-> <<>>]])]

\* the catch of getPrescriptionReport (client.tsx 657-674); arg is the period
getPrescriptionReportCatch(call) ==
    LET filtered ==
            SelectSeq(storageGet("prescriptions"),
                      LAMBDA r : /\ dateOf(r.createdAt) >= call.arg.start
                                 /\ dateOf(r.createdAt) <= call.arg.end)
        statuses == {filtered[k].status : k \in 1..Len(filtered)}
    IN [storage |-> storage,
        call |-> Resolved(call, "local",
          [report |->
             [period |-> call.arg,
              totalPrescriptions |-> Len(filtered),
              statusBreakdown |->
                 [st \in statuses |-> Count(filtered, LAMBDA r : r.status = st)],
              prescriptions |-> filtered]])]

-----------------------------------------------------------------------------
(* A call's steps.  A call whose remote attempt has failed runs its catch in the    *)
(* same step: the catch is synchronous and touches only the local store, which no   *)
(* handler reads.                                                                   *)

catch(call) ==
    CASE call.op = "updateStock" -> updateStockCatch(call)
      [] call.op = "createSale" -> createSaleCatch(call)
      [] call.op = "addMedicine" -> addMedicineCatch(call)
      [] call.op = "getMedicines" -> getMedicinesCatch(call)
      [] call.op = "updatePrescriptionStatus" -> updatePrescriptionStatusCatch(call)
      [] call.op = "createTicket" -> createTicketCatch(call)
      [] call.op = "updateTicketStatus" -> updateTicketStatusCatch(call)
      [] call.op = "updateMedicine" -> updateMedicineCatch(call)
      [] call.op = "deleteMedicine" -> deleteMedicineCatch(call)
      [] call.op = "getSales" -> getSalesCatch(call)
      [] call.op = "getSaleById" -> getSaleByIdCatch(call)
      [] call.op = "getPrescriptions" -> getPrescriptionsCatch(call)
      [] call.op = "addPrescription" -> addPrescriptionCatch(call)
      [] call.op = "verifyPrescription" -> verifyPrescriptionCatch(call)
      [] call.op = "getEmployees" -> getEmployeesCatch(call)
      [] call.op = "addEmployee" -> addEmployeeCatch(call)
      [] call.op \in {"clockIn", "clockOut"} -> clockCatch(call)
      [] call.op = "getTimeEntries" -> getTimeEntriesCatch(call)
      [] call.op = "getTickets" -> getTicketsCatch(call)
      [] call.op = "getDashboardStats" -> getDashboardStatsCatch(call)
      [] call.op = "getRecentActivity" -> getRecentActivityCatch(call)
      [] call.op = "getLowStockAlerts" -> getLowStockAlertsCatch(call)
      [] call.op = "getSalesReport" -> getSalesReportCatch(call)
      [] call.op = "getInventoryReport" -> getInventoryReportCatch(call)
      [] call.op = "getEmployeeReport" -> getEmployeeReportCatch(call)
      [] call.op = "getPrescriptionReport" -> getPrescriptionReportCatch(call)

\* the outcome of a step that leaves call c as call: the local store and the calls
Settle(c, call) ==
    LET out == IF call.pc = "fallback" THEN catch(call) ELSE [storage |-> storage, call |-> call]
    IN /\ storage' = out.storage
       /\ calls' = [calls EXCEPT ![c] = out.call]

\* call c starts, after the calls before it; before and solo record for the claims
\* what it found and whether it ran with no other call in flight
Start(c, rec) ==
    LET attempt == IF useBackend THEN rec
                   ELSE [rec EXCEPT !.pc = "fallback", !.status = 0,
                                    !.serverError = "Backend disabled"]
        call == [attempt EXCEPT !.before = Stocks, !.solo = \A e \in Calls \ {c} : ~Active(e)]
        out == IF call.pc = "fallback" THEN catch(call) ELSE [storage |-> storage, call |-> call]
    IN /\ calls[c].pc = "idle"
       /\ \A d \in Calls : d < c => calls[d].pc # "idle"
       /\ storage' = out.storage
       /\ calls' = [d \in Calls |->
                     IF d = c THEN out.call
                     ELSE IF Active(d) THEN [calls[d] EXCEPT !.solo = FALSE]
                     ELSE calls[d]]

\* updateStock(id, quantity, type) is called: fetch fails, or the request reaches the
\* handler, which reads the medicine's row and decides (client.tsx 305-310)
UpdateStock(c, id, quantity, type, reach) ==
    LET call == [IdleCall EXCEPT !.op = "updateStock", !.id = id, !.quantity = quantity,
                                 !.type = type]
    IN /\ Start(c, IF reach THEN stockHandlerRead(call) ELSE Failed(call, 0, "Failed to fetch"))
       /\ UNCHANGED <<envVars, browserVars, remoteVars, nids, uiVars>>

\* the handler writes the new stock, logs the movement and answers (index.tsx 352-401)
StockWrite(c) ==
    LET call == calls[c]
        newStock == stockToWrite(call, meds[call.id])
        row == [meds[call.id] EXCEPT !.stock = newStock, !.updated = clock]
    IN
    /\ call.pc = "stock_write"
    /\ meds' = [meds EXCEPT ![call.id] = row]
    /\ stock_moves' = Append(stock_moves,
          [med_id |-> call.id, type |-> IF call.type = "add" THEN "in" ELSE "out",
           qty_change |-> call.quantity, old_stock |-> call.previousStock,
           new_stock |-> newStock, ref_type |-> "adj"])
    /\ Settle(c, Resolved(call, "remote", [medicine |-> transformMedicine(row)]))
    /\ UNCHANGED <<envVars, browserVars, sales, sale_items, nids, uiVars>>

\* createSale(sale) is called: fetch fails, or the request reaches the handler, which
\* inserts the sale's row (client.tsx 335-346, index.tsx 466-487)
createSale(c, sale, reach) ==
    LET call == [IdleCall EXCEPT !.op = "createSale", !.sale = newSale(sale, nids + 1)]
        row == saleRow(call.sale, Len(sales) + 1)
    IN /\ Start(c, IF ~reach THEN Failed(call, 0, "Failed to fetch")
                   ELSE IF ~dbInit THEN Failed(call, 400, NotInitialized)
                   ELSE NextItem([call EXCEPT !.saleRow = row]))
       /\ sales' = IF reach /\ dbInit THEN Append(sales, row) ELSE sales
       /\ nids' = nids + 1
       /\ UNCHANGED <<envVars, browserVars, meds, stock_moves, sale_items>>

\* createSale called from elsewhere than the sales screen
CreateSale(c, sale, reach) ==
    /\ createSale(c, sale, reach)
    /\ UNCHANGED uiVars

\* addMedicine(medicine) is called: fetch fails, or the handler refuses the request,
\* or it inserts the row and answers (client.tsx 258-275, index.tsx 144-218)
addMedicine(c, medicine, reach) ==
    LET call == [IdleCall EXCEPT !.op = "addMedicine",
                                 !.medicine = newMedicine(medicine, nids + 1)]
        error == medicineRequestError(call.medicine)
        row == insertMed(medicineData(call.medicine), Cardinality(DOMAIN meds) + 1)
        served == reach /\ error = "none" /\ dbInit
    IN /\ Start(c, IF ~reach THEN Failed(call, 0, "Failed to fetch")
                   ELSE IF error # "none" THEN Failed(call, 400, error)
                   ELSE IF ~dbInit THEN Failed(call, 400, NotInitialized)
                   ELSE Resolved(call, "remote", [medicine |-> transformMedicine(row)]))
       /\ meds' = IF served
                  THEN [id \in DOMAIN meds \cup {row.id} |->
                          IF id = row.id THEN row ELSE meds[id]]
                  ELSE meds
       /\ nids' = nids + 1
       /\ UNCHANGED <<envVars, browserVars, stock_moves, sales, sale_items>>

\* addMedicine called from elsewhere than the inventory screen
AddMedicine(c, medicine, reach) ==
    /\ addMedicine(c, medicine, reach)
    /\ UNCHANGED uiVars

\* getMedicines() is called: fetch fails, or the table is missing, or the handler
\* answers with the active rows (client.tsx 250-256, index.tsx 89-141)
GetMedicines(c, reach) ==
    LET call == [IdleCall EXCEPT !.op = "getMedicines"]
    IN /\ IF reach /\ dbInit
          THEN \E list \in activeByName :
                  Start(c, Resolved(call, "remote", medicinesResponse(list)))
          ELSE Start(c, Failed(call, IF reach THEN 400 ELSE 0,
                               IF reach THEN NotInitialized ELSE "Failed to fetch"))
       /\ UNCHANGED <<envVars, browserVars, remoteVars, nids, uiVars>>

\* the handler inserts item i (the row needs med_id to be a row of meds; the error is
\* dropped) and reads the medicine's stock (index.tsx 491-515)
SaleItemRead(c) ==
    LET call == calls[c]
        item == call.sale.items[call.i]
    IN
    /\ call.pc = "item_read"
    /\ sale_items' = IF item.medicineId \in DOMAIN meds
                     THEN Append(sale_items,
                            [id |-> gen_random_uuid(100 + Len(sale_items) + 1),
                             sale_id |-> call.saleRow.id, med_id |-> item.medicineId,
                             med_name |-> item.name, qty |-> item.quantity,
                             price |-> item.price, total |-> item.quantity * item.price])
                     ELSE sale_items
    /\ Settle(c, IF item.medicineId \in DOMAIN meds
                 THEN [call EXCEPT !.pc = "item_write",
                                   !.previousStock = meds[item.medicineId].stock]
                 ELSE NextItem(call))
    /\ UNCHANGED <<envVars, browserVars, meds, stock_moves, sales, nids, uiVars>>

\* the handler writes item i's new stock when it is not negative, and logs the
\* movement (index.tsx 516-541)
SaleItemWrite(c) ==
    LET call == calls[c]
        item == call.sale.items[call.i]
        newStock == call.previousStock - item.quantity
    IN
    /\ call.pc = "item_write"
    /\ IF saleStockOk(newStock)
       THEN /\ meds' = [meds EXCEPT ![item.medicineId].stock = newStock,
                                    ![item.medicineId].updated = clock]
            /\ stock_moves' = Append(stock_moves,
                  [med_id |-> item.medicineId, type |-> "out", qty_change |-> item.quantity,
                   old_stock |-> call.previousStock, new_stock |-> newStock,
                   ref_type |-> "sale", ref_id |-> call.saleRow.id])
       ELSE UNCHANGED <<meds, stock_moves>>
    /\ Settle(c, NextItem(call))
    /\ UNCHANGED <<envVars, browserVars, sales, sale_items, nids, uiVars>>

\* a request for a route the server does not have: fetch fails or the answer is 404
NoRoute(call, reach) ==
    IF reach THEN Failed(call, 404, NotFound) ELSE Failed(call, 0, "Failed to fetch")

\* updatePrescriptionStatus(id, status) is called (client.tsx 392-405)
UpdatePrescriptionStatus(c, id, status, reach) ==
    LET call == [IdleCall EXCEPT !.op = "updatePrescriptionStatus", !.id = id,
                                 !.newStatus = status]
    IN /\ Start(c, NoRoute(call, reach))
       /\ UNCHANGED <<envVars, browserVars, remoteVars, nids, uiVars>>

\* createTicket(ticket) is called (client.tsx 494-512)
CreateTicket(c, ticket, reach) ==
    LET call == [IdleCall EXCEPT !.op = "createTicket", !.ticket = newTicket(ticket, nids + 1)]
    IN /\ Start(c, NoRoute(call, reach))
       /\ nids' = nids + 1
       /\ UNCHANGED <<envVars, browserVars, remoteVars, uiVars>>

\* updateTicketStatus(id, status) is called (client.tsx 514-527)
UpdateTicketStatus(c, id, status, reach) ==
    LET call == [IdleCall EXCEPT !.op = "updateTicketStatus", !.id = id,
                                 !.newStatus = status]
    IN /\ Start(c, NoRoute(call, reach))
       /\ UNCHANGED <<envVars, browserVars, remoteVars, nids, uiVars>>

-----------------------------------------------------------------------------
(* The other methods.  Those whose route the server lacks are modelled whole; of    *)
(* those whose route it has, the actions named ...Failing model the call whose      *)
(* remote attempt fails, which is the call the fallback serves.                     *)

\* how a remote attempt fails: fetch throws, or the answer is not 2xx
RemoteFailures ==
    {[status |-> 0, message |-> "Failed to fetch"],
     [status |-> 500, message |-> NotInitialized]}

Fails(call, failure) == Failed(call, failure.status, failure.message)

\* index.tsx 226-244: the columns the handler writes, those left undefined removed
updateData(updates) ==
    LET column(to, from, other) ==
            IF from \in DOMAIN updates THEN [f \in {to} |-> updates[from]]
            ELSE IF other \in DOMAIN updates THEN [f \in {to} |-> updates[other]]
            ELSE EmptyObject
        text(to, from) ==
            IF from \in DOMAIN updates THEN [f \in {to} |-> Trim(updates[from])]
            ELSE EmptyObject
    IN Spread(Spread(Spread(text("name", "name"), text("cat", "category")),
                     Spread(text("mfg", "manufacturer"),
                            column("stock", "stock", "current_stock"))),
              Spread(Spread(column("min_stock", "minStock", "minimum_stock"),
                            column("max_stock", "maxStock", "maximum_stock")),
                     Spread(column("price", "price", "unit_price"), [updated |-> clock])))

\* updateMedicine(id, updates) is called: fetch fails, or the table is missing, or
\* single() finds no row to return, or the handler updates the row and answers
\* (client.tsx 277-292, index.tsx 221-285); arg is the updates
updateMedicine(c, id, updates, reach) ==
    LET call == [IdleCall EXCEPT !.op = "updateMedicine",
                                 !.id = id,
                                 !.arg = updates]
        served == reach /\ dbInit /\ id \in DOMAIN meds
        row == setStrength(Spread(meds[id], updateData(Spread(updates, [updatedAt |-> clock]))),
                           updates)
    IN /\ Start(c, IF ~reach THEN Failed(call, 0, "Failed to fetch")
                   ELSE IF ~dbInit THEN Failed(call, 400, NotInitialized)
                   ELSE IF id \notin DOMAIN meds THEN Failed(call, 500, NotInitialized)
                   ELSE Resolved(call, "remote", [medicine |-> transformMedicine(row)]))
       /\ meds' = IF served THEN [meds EXCEPT ![id] = row] ELSE meds
       /\ UNCHANGED <<envVars, browserVars, stock_moves, sales, sale_items, nids>>

\* updateMedicine called from elsewhere than the inventory screen
UpdateMedicine(c, id, updates, reach) ==
    /\ updateMedicine(c, id, updates, reach)
    /\ UNCHANGED uiVars

\* the ids column id UUID takes; the ids the client makes are none
isUuid(id) == id \in {gen_random_uuid(n) : n \in 0..9}

\* deleteMedicine(id) is called: fetch fails, or the table is missing, or id is no
\* uuid, or the handler marks the rows of that id, if any, inactive and answers
\* (client.tsx 294-303, index.tsx 288-309)
DeleteMedicine(c, id, reach) ==
    LET call == [IdleCall EXCEPT !.op = "deleteMedicine",
                                 !.id = id]
        served == reach /\ dbInit /\ isUuid(id)
    IN /\ Start(c, IF ~reach THEN Failed(call, 0, "Failed to fetch")
                   ELSE IF ~dbInit THEN Failed(call, 400, NotInitialized)
                   ELSE IF ~isUuid(id) THEN Failed(call, 500, NotInitialized)
                   ELSE Resolved(call, "remote", [success |-> TRUE]))
       /\ meds' = IF served /\ id \in DOMAIN meds
                  THEN [meds EXCEPT ![id].active = FALSE, ![id].updated = clock]
                  ELSE meds
       /\ UNCHANGED <<envVars, browserVars, stock_moves, sales, sale_items, nids, uiVars>>

\* the lists .order('sale_date', { ascending: false }) can give: the rows of sales,
\* latest first, rows of one date in any order (index.tsx 413-425)
salesByDate ==
    LET n == Len(sales)
    IN {list \in [1..n -> 1..n] :
          /\ \A i, j \in 1..n : i # j => list[i] # list[j]
          /\ \A i, j \in 1..n : i < j => sales[list[i]].sale_date >= sales[list[j]].sale_date}

\* index.tsx 438-451: a sale of the answer, with the items of table sale_items
transformedSale(row) ==
    LET items == SelectSeq(sale_items, LAMBDA item : item.sale_id = row.id)
    IN [id |-> row.id, customerName |-> row.cust_name, customerPhone |-> row.cust_phone,
        total |-> row.total, paymentMethod |-> row.payment, timestamp |-> row.sale_date,
        items |-> [i \in 1..Len(items) |->
                     [medicineId |-> items[i].id, name |-> items[i].med_name,
                      quantity |-> items[i].qty, price |-> items[i].price]]]

\* getSales() is called: fetch fails, or the handler answers, with no sale and a
\* warning when the table is missing (client.tsx 327-333, index.tsx 411-461)
GetSales(c, reach) ==
    LET call == [IdleCall EXCEPT !.op = "getSales"]
    IN /\ IF ~reach THEN Start(c, Failed(call, 0, "Failed to fetch"))
          ELSE IF ~dbInit
          THEN Start(c, Resolved(call, "remote", [sales |-> <<>>, warning |-> NotInitialized]))
          ELSE \E list \in salesByDate :
                  Start(c, Resolved(call, "remote",
                             [sales |-> [i \in 1..Len(list) |-> transformedSale(sales[list[i]])]]))
       /\ UNCHANGED <<envVars, browserVars, remoteVars, nids, uiVars>>

\* client.tsx 353-361
GetSaleById(c, id, reach) ==
    LET call == [IdleCall EXCEPT !.op = "getSaleById",
                                 !.id = id]
    IN /\ Start(c, NoRoute(call, reach))
       /\ UNCHANGED <<envVars, browserVars, remoteVars, nids, uiVars>>

\* the remote table rx: the migration script's first sample row (part_001 247-250),
\* which no request of the client changes, since the server has no route that updates
\* a prescription and POST /prescriptions refuses what the client sends
rx ==
    IF dbInit
    THEN << [id |-> gen_random_uuid(9), pat_name |-> <<"J", "o">>, doc_name |-> <<"D", "r">>,
             status |-> "pending", created |-> 0, updated |-> 0] >>
    ELSE <<>>

\* index.tsx 641-663: the row under the names the handler answers with
transformedPrescription(row) ==
    [id |-> row.id, patient_name |-> row.pat_name, doctor_name |-> row.doc_name,
     prescription_status |-> row.status, created_at |-> row.created,
     updated_at |-> row.updated]

\* what GET /prescriptions answers, with status 200 in every case (index.tsx 614-672)
prescriptionsResponse ==
    IF dbInit
    THEN [prescriptions |-> [i \in 1..Len(rx) |-> transformedPrescription(rx[i])]]
    ELSE [prescriptions |-> <<>>, error |-> NotInitialized]

\* getPrescriptions() is called: fetch fails, or the handler answers, with no
\* prescription when the table is missing (client.tsx 364-370, index.tsx 614-672)
GetPrescriptions(c, reach) ==
    LET call == [IdleCall EXCEPT !.op = "getPrescriptions"]
    IN /\ Start(c, IF reach THEN Resolved(call, "remote", prescriptionsResponse)
                   ELSE Failed(call, 0, "Failed to fetch"))
       /\ UNCHANGED <<envVars, browserVars, remoteVars, nids, uiVars>>

\* index.tsx 681-701: the insert into rx fails when the table is missing and when
\* pat_name or doc_name, which are NOT NULL, get no value; the handler reads them from
\* patient_name and doctor_name, and answers 400 to either failure, the message of the
\* second naming the relation (isTableMissingError, index.tsx 49-54)
rxInsertFails(prescription) ==
    \/ ~dbInit
    \/ "patient_name" \notin DOMAIN prescription
    \/ "doctor_name" \notin DOMAIN prescription

\* addPrescription(prescription) is called, with the fields the prescription screen
\* gives (patientName, doctorName, ...): fetch fails, or the handler's insert fails
\* (client.tsx 372-390, index.tsx 675-734); arg is the new prescription
addPrescription(c, prescription, reach) ==
    LET call == [IdleCall EXCEPT !.op = "addPrescription",
                                 !.arg = newPrescription(prescription, nids + 1)]
    IN /\ reach => rxInsertFails(call.arg)
       /\ Start(c, IF reach THEN Failed(call, 400, NotInitialized)
                   ELSE Failed(call, 0, "Failed to fetch"))
       /\ nids' = nids + 1
       /\ UNCHANGED <<envVars, browserVars, remoteVars>>

\* addPrescription called from elsewhere than the prescription screen
AddPrescription(c, prescription, reach) ==
    /\ addPrescription(c, prescription, reach)
    /\ UNCHANGED uiVars

\* client.tsx 407-424
VerifyPrescription(c, id, verification, reach) ==
    LET call == [IdleCall EXCEPT !.op = "verifyPrescription",
                                 !.id = id,
                                 !.arg = verification]
    IN /\ Start(c, NoRoute(call, reach))
       /\ UNCHANGED <<envVars, browserVars, remoteVars, nids, uiVars>>

\* client.tsx 427-433
GetEmployeesFailing(c, failure) ==
    LET call == [IdleCall EXCEPT !.op = "getEmployees"]
    IN /\ Start(c, Fails(call, failure))
       /\ UNCHANGED <<envVars, browserVars, remoteVars, nids, uiVars>>

\* client.tsx 435-452
AddEmployee(c, employee, reach) ==
    LET call == [IdleCall EXCEPT !.op = "addEmployee",
                                 !.arg = newEmployee(employee, nids + 1)]
    IN /\ Start(c, NoRoute(call, reach))
       /\ nids' = nids + 1
       /\ UNCHANGED <<envVars, browserVars, remoteVars, uiVars>>

\* client.tsx 454-463
ClockIn(c, employeeId, reach) ==
    LET call == [IdleCall EXCEPT !.op = "clockIn",
                                 !.id = employeeId]
    IN /\ Start(c, NoRoute(call, reach))
       /\ UNCHANGED <<envVars, browserVars, remoteVars, nids, uiVars>>

\* client.tsx 465-474
ClockOut(c, employeeId, reach) ==
    LET call == [IdleCall EXCEPT !.op = "clockOut",
                                 !.id = employeeId]
    IN /\ Start(c, NoRoute(call, reach))
       /\ UNCHANGED <<envVars, browserVars, remoteVars, nids, uiVars>>

\* client.tsx 476-484
GetTimeEntries(c, employeeId, reach) ==
    LET call == [IdleCall EXCEPT !.op = "getTimeEntries",
                                 !.id = employeeId]
    IN /\ Start(c, NoRoute(call, reach))
       /\ UNCHANGED <<envVars, browserVars, remoteVars, nids, uiVars>>

\* client.tsx 486-492
GetTicketsFailing(c, failure) ==
    LET call == [IdleCall EXCEPT !.op = "getTickets"]
    IN /\ Start(c, Fails(call, failure))
       /\ UNCHANGED <<envVars, browserVars, remoteVars, nids, uiVars>>

\* client.tsx 530-553
GetDashboardStatsFailing(c, failure) ==
    LET call == [IdleCall EXCEPT !.op = "getDashboardStats"]
    IN /\ Start(c, Fails(call, failure))
       /\ UNCHANGED <<envVars, browserVars, remoteVars, nids, uiVars>>

\* client.tsx 555-578
GetRecentActivityFailing(c, failure) ==
    LET call == [IdleCall EXCEPT !.op = "getRecentActivity"]
    IN /\ Start(c, Fails(call, failure))
       /\ UNCHANGED <<envVars, browserVars, remoteVars, nids, uiVars>>

\* client.tsx 580-597
GetLowStockAlertsFailing(c, failure) ==
    LET call == [IdleCall EXCEPT !.op = "getLowStockAlerts"]
    IN /\ Start(c, Fails(call, failure))
       /\ UNCHANGED <<envVars, browserVars, remoteVars, nids, uiVars>>

\* client.tsx 600-621
GetSalesReport(c, startDate, endDate, reach) ==
    LET call == [IdleCall EXCEPT !.op = "getSalesReport",
                                 !.arg = [start |-> startDate, end |-> endDate]]
    IN /\ Start(c, NoRoute(call, reach))
       /\ UNCHANGED <<envVars, browserVars, remoteVars, nids, uiVars>>

\* client.tsx 623-638
GetInventoryReport(c, reach) ==
    LET call == [IdleCall EXCEPT !.op = "getInventoryReport"]
    IN /\ Start(c, NoRoute(call, reach))
       /\ UNCHANGED <<envVars, browserVars, remoteVars, nids, uiVars>>

\* client.tsx 640-652
GetEmployeeReport(c, month, reach) ==
    LET call == [IdleCall EXCEPT !.op = "getEmployeeReport",
                                 !.arg = month]
    IN /\ Start(c, NoRoute(call, reach))
       /\ UNCHANGED <<envVars, browserVars, remoteVars, nids, uiVars>>

\* client.tsx 654-676
GetPrescriptionReport(c, startDate, endDate, reach) ==
    LET call == [IdleCall EXCEPT !.op = "getPrescriptionReport",
                                 !.arg = [start |-> startDate, end |-> endDate]]
    IN /\ Start(c, NoRoute(call, reach))
       /\ UNCHANGED <<envVars, browserVars, remoteVars, nids, uiVars>>

-----------------------------------------------------------------------------
(* Initial states *)

samplePrescriptions ==
    << [id |-> "presc_001", patientName |-> <<"J", "a">>, doctorName |-> <<"D", "r">>,
        status |-> "pending", createdAt |-> 0, updatedAt |-> 0] >>

sampleSales ==
    << [id |-> "sale_001", customerName |-> Customer, customerPhone |-> <<>>,
        items |-> << [medicineId |-> "med_001", name |-> Paracetamol, quantity |-> 2,
                      price |-> 599] >>,
        total |-> 1198, paymentMethod |-> "cash", timestamp |-> 0] >>

\* LocalStorageManager.loadFromStorage: the samples, or the blob an earlier session
\* left, in which stock updates have moved the first sample's stock to s
InitStorage(s) ==
    [medicines |-> sampleMedicines(s, MaxStock), sales |-> sampleSales,
     prescriptions |-> samplePrescriptions, employees |-> <<>>, tickets |-> <<>>]

\* the remote tables after the migration script, stock updates having moved the first
\* row's stock to s; no table at all before the script has run
InitMeds(s) == [id \in {"u1", "u2"} |-> sampleRow(id, IF id = "u1" THEN s ELSE MaxStock)]

NoRows == [id \in {} |-> Null]

\* resetMedicineForm (setup-database.md 270-284): every field blank
BlankForm == [name |-> <<>>, category |-> <<>>, manufacturer |-> <<>>]

\* a session that has not loaded the application yet
ClosedTab == [data |-> Null, prescriptions |-> <<>>]

\* no other session, nothing stored by the browser, the setup notice as it mounts
\* (DatabaseSetupNotice.tsx 16)
InitBrowser ==
    /\ localStorage = Null
    /\ tabs = [t \in Tabs |-> ClosedTab]
    /\ setupStatus = "pending"
    /\ validation = Null

InitCommon ==
    /\ clock = 0
    /\ stock_moves = <<>>
    /\ sales = <<>>
    /\ sale_items = <<>>
    /\ calls = [c \in Calls |-> IdleCall]
    /\ medicines = <<>>
    /\ cart = <<>>
    /\ toasts = {}
    /\ medicineForm = BlankForm
    /\ InitBrowser

-----------------------------------------------------------------------------
(* The stock specification: stock updates and sales, from concurrent callers *)

StockIds == {"u1", "med_001"}

saleItem(id, quantity) ==
    [medicineId |-> id, name |-> Paracetamol, price |-> 599, quantity |-> quantity]

\* subtractions of every quantity, and additions of one unit
StockRequests ==
    {[quantity |-> q, type |-> "subtract"] : q \in Quantities}
    \cup {[quantity |-> 1, type |-> "add"]}

StockCarts ==
    {<<saleItem("u1", q)>> : q \in Quantities}
    \cup {<<saleItem("med_001", 1)>>, <<saleItem("u1", 1), saleItem("u2", 1)>>}

InitStock ==
    /\ InitCommon
    /\ nids = 0
    /\ dbInit \in BOOLEAN
    /\ \E s \in StockVals :
          /\ meds = IF dbInit THEN InitMeds(s) ELSE NoRows
          /\ storage = InitStorage(s)

NextStock ==
    \/ \E c \in Calls, id \in StockIds, r \in StockRequests, reach \in BOOLEAN :
          UpdateStock(c, id, r.quantity, r.type, reach)
    \/ \E c \in Calls : StockWrite(c)
    \/ \E c \in Calls, items \in StockCarts, reach \in BOOLEAN :
          CreateSale(c, saleData(items, "cash"), reach)
    \/ \E c \in Calls : SaleItemRead(c)
    \/ \E c \in Calls : SaleItemWrite(c)

SpecStock == InitStock /\ [][NextStock]_vars

-----------------------------------------------------------------------------
(* The inventory specification: medicines are added and listed *)

Ab == <<"A", "b">>

\* what the add-medicine form can hold: a name, a padded name, a name too short
MedNames == {Ab, <<" ">> \o Ab, <<"A">>}

MedicineForms ==
    {[name |-> n, category |-> PainRelief, manufacturer |-> PharmaCorp, stock |-> st,
      minStock |-> mn, maxStock |-> MaxStock + 1, price |-> 500] :
        n \in MedNames, st \in {0, MaxStock}, mn \in {0, 1}}

InitMed ==
    /\ InitCommon
    /\ nids = 0
    /\ dbInit \in BOOLEAN
    /\ meds = IF dbInit THEN InitMeds(MaxStock) ELSE NoRows
    /\ storage = InitStorage(MaxStock)

NextMed ==
    \/ \E c \in Calls, medicine \in MedicineForms, reach \in BOOLEAN :
          AddMedicine(c, medicine, reach)
    \/ \E c \in Calls, reach \in BOOLEAN : GetMedicines(c, reach)
    \/ \E c \in Calls, id \in {"u1", "med_001"}, reach \in BOOLEAN :
          UpdateMedicine(c, id, [stock |-> 0], reach)
    \/ Tick

SpecMed == InitMed /\ [][NextMed]_vars

-----------------------------------------------------------------------------
(* The sales screen: components/SalesBilling.tsx *)

\* the list renders medicine.price.toFixed(2) for every medicine (SalesBilling.tsx
\* 398): a medicine without a price takes the screen down with its buttons
rendered == \A k \in 1..Len(medicines) : "price" \in DOMAIN medicines[k]

\* no sale is being processed or waits for its receipt
idleScreen == \A c \in Calls : calls[c].pc \in {"idle", "shown"}

\* cart.find((item) => item.medicineId === id): its index, or -1
RECURSIVE findItem(_, _, _)
findItem(items, id, i) ==
    IF i > Len(items) THEN -1
    ELSE IF items[i].medicineId = id THEN i
    ELSE findItem(items, id, i + 1)

\* cart.filter((item) => item.medicineId !== id)
RECURSIVE filterOut(_, _)
filterOut(items, id) ==
    IF items = <<>> THEN <<>>
    ELSE IF Head(items).medicineId = id THEN filterOut(Tail(items), id)
    ELSE <<Head(items)>> \o filterOut(Tail(items), id)

\* the item addToCart appends (SalesBilling.tsx 111-119)
cartItem(medicine) ==
    Spread([medicineId |-> medicine.id, name |-> medicine.name, quantity |-> 1],
           Pick(medicine, {"price", "stock", "strength", "manufacturer"}))

\* validation.ts validatePhone: an optional +, a digit 1-9, up to 15 digits more,
\* spaces, dashes and parentheses apart
validatePhone(phone) ==
    LET stripped == SelectSeq(phone, LAMBDA ch : ch \notin {" ", "-", "(", ")"})
        digits == IF stripped # <<>> /\ Head(stripped) = "+" THEN Tail(stripped) ELSE stripped
    IN /\ digits # <<>>
       /\ Len(digits) <= 16
       /\ Head(digits) \in {"1", "5"}
       /\ \A k \in 1..Len(digits) : digits[k] \in {"0", "1", "5"}

\* validation.ts validateSale (152-196); the total is a number whenever every item
\* has a price, and the items are looked at first
validateSale(data) ==
    /\ data.customerName # <<>> => Len(Trim(data.customerName)) >= 2
    /\ data.customerPhone # <<>> => validatePhone(data.customerPhone)
    /\ data.items # <<>>
    /\ \A k \in 1..Len(data.items) :
          LET item == data.items[k]
          IN /\ item.medicineId # ""
             /\ Len(Trim(item.name)) >= 2
             /\ item.quantity > 0
             /\ "price" \in DOMAIN item /\ item.price > 0
    /\ data.total >= 0
    /\ data.paymentMethod \in {"", "cash", "card", "insurance", "other"}

\* loadMedicines: the list getMedicines resolves with (SalesBilling.tsx 72-83)
loadMedicines(reach) ==
    IF reach /\ dbInit
    THEN \E list \in activeByName : medicines' = medicinesResponse(list).medicines
    ELSE medicines' = storageGet("medicines")

\* the screen mounts or is refreshed
LoadMedicines(reach) ==
    /\ idleScreen
    /\ loadMedicines(reach)
    /\ UNCHANGED <<envVars, browserVars, remoteVars, storage, calls, nids, cart, toasts, medicineForm>>

\* a + button that does not look at the stock
AddToCartAnyStock(k) ==
    LET medicine == medicines[k]
        index == findItem(cart, medicine.id, 1)
    IN /\ rendered
       /\ k \in 1..Len(medicines)
       /\ IF index # -1
          THEN cart' = [cart EXCEPT ![index].quantity = @ + 1]
          ELSE cart' = Append(cart, cartItem(medicine))
       /\ UNCHANGED <<envVars, browserVars, remoteVars, storage, calls, nids, medicines, toasts, medicineForm>>

\* the + button of medicine k of the list (SalesBilling.tsx 92-122, 401-403)
AddToCart(k) ==
    LET medicine == medicines[k]
        index == findItem(cart, medicine.id, 1)
    IN /\ rendered
       /\ k \in 1..Len(medicines)
       /\ ~("stock" \in DOMAIN medicine /\ medicine.stock <= 0)
       /\ IF index # -1
          THEN /\ ~("stock" \in DOMAIN medicine /\ cart[index].quantity >= medicine.stock)
               /\ cart' = [cart EXCEPT ![index].quantity = @ + 1]
          ELSE cart' = Append(cart, cartItem(medicine))
       /\ UNCHANGED <<envVars, browserVars, remoteVars, storage, calls, nids, medicines, toasts, medicineForm>>

\* removeFromCart (SalesBilling.tsx 143-145)
removeFromCart(medicineId) == cart' = filterOut(cart, medicineId)

\* the - and + buttons of cart item index (SalesBilling.tsx 124-141, 500-510)
UpdateQuantity(index, delta) ==
    LET item == cart[index]
        newQuantity == item.quantity + delta
    IN /\ rendered
       /\ index \in 1..Len(cart)
       /\ delta = 1 => ~("stock" \in DOMAIN item /\ item.quantity >= item.stock)
       /\ IF newQuantity <= 0
          THEN removeFromCart(item.medicineId)
          ELSE /\ ~("stock" \in DOMAIN item /\ newQuantity > item.stock)
               /\ cart' = [cart EXCEPT ![index].quantity = newQuantity]
       /\ UNCHANGED <<envVars, browserVars, remoteVars, storage, calls, nids, medicines, toasts, medicineForm>>

\* the bin button of cart item index
RemoveFromCart(index) ==
    /\ rendered
    /\ index \in 1..Len(cart)
    /\ removeFromCart(cart[index].medicineId)
    /\ UNCHANGED <<envVars, browserVars, remoteVars, storage, calls, nids, medicines, toasts, medicineForm>>

\* toast.error(message) by a handler of a screen
toast(by, message) == toasts' = toasts \cup {[by |-> by, error |-> message]}

\* toast.error(validation.errors[0]): the text tells which validator refused
Refused == "validation"

\* what the customer fields hold when the sale is processed
CustomerInfos == {[name |-> Customer, phone |-> <<>>], [name |-> Customer, phone |-> <<"0">>]}

\* processSale up to its await: an empty cart and a sale the validator refuses are
\* reported and nothing else is done; otherwise createSale is called with the sale
\* (SalesBilling.tsx 151-174)
ProcessSale(c, customerInfo, reach) ==
    LET data == [saleData(cart, "cash") EXCEPT !.customerName = customerInfo.name,
                                               !.customerPhone = customerInfo.phone]
    IN
    /\ c <= MaxSales
    /\ rendered
    /\ idleScreen
    /\ IF cart = <<>>
       THEN /\ toast("processSale", "Cart is empty")
            /\ UNCHANGED <<envVars, browserVars, remoteVars, storage, calls, nids, medicines, cart, medicineForm>>
       ELSE IF ~validateSale(data)
       THEN /\ toast("processSale", Refused)
            /\ UNCHANGED <<envVars, browserVars, remoteVars, storage, calls, nids, medicines, cart, medicineForm>>
       ELSE /\ createSale(c, data, reach)
            /\ UNCHANGED uiVars

\* processSale after its await: the receipt is shown, the cart is emptied and the
\* list is loaded again (SalesBilling.tsx 176-196)
SaleCompleted(c, reach) ==
    /\ calls[c].pc = "done"
    /\ calls[c].op = "createSale"
    /\ calls' = [calls EXCEPT ![c].pc = "shown"]
    /\ cart' = <<>>
    /\ loadMedicines(reach)
    /\ UNCHANGED <<envVars, browserVars, remoteVars, storage, nids, toasts, medicineForm>>

\* what an earlier session left on the shelf of the local store: two medicines it
\* added, 2 of the one and 3 of the other in stock
shelf ==
    << [id |-> "id_1", name |-> Ab, category |-> PainRelief, manufacturer |-> PharmaCorp,
        stock |-> 2, minStock |-> 0, maxStock |-> 10, price |-> 500,
        createdAt |-> 0, updatedAt |-> 0],
       [id |-> "id_2", name |-> Amoxicillin, category |-> PainRelief,
        manufacturer |-> PharmaCorp, stock |-> 3, minStock |-> 0,
        maxStock |-> 10, price |-> 1000, createdAt |-> 0, updatedAt |-> 0] >>

InitSales ==
    /\ InitCommon
    /\ nids = Len(shelf)
    /\ dbInit \in BOOLEAN
    /\ meds = IF dbInit THEN InitMeds(MaxStock) ELSE NoRows
    /\ storage = [InitStorage(MaxStock) EXCEPT !.medicines = shelf]

NextSales ==
    \/ \E reach \in BOOLEAN : LoadMedicines(reach)
    \/ \E k \in 1..Len(medicines) : AddToCart(k)
    \/ \E index \in 1..Len(cart), delta \in {-1, 1} : UpdateQuantity(index, delta)
    \/ \E index \in 1..Len(cart) : RemoveFromCart(index)
    \/ \E c \in Calls, customerInfo \in CustomerInfos, reach \in BOOLEAN :
          ProcessSale(c, customerInfo, reach)
    \/ \E c \in Calls : SaleItemRead(c)
    \/ \E c \in Calls, reach \in BOOLEAN : SaleCompleted(c, reach)

\* (the screen never sends the id of a remote row, see rendered: the handler's stock
\* write, SaleItemWrite, has nothing to do in this specification)
SpecSales == InitSales /\ [][NextSales]_vars

-----------------------------------------------------------------------------
(* The inventory screen (scripts/setup-database.md) and the prescription screen     *)
(* (PrescriptionManagement): the handlers that submit a form                        *)

\* the medicine form as handleAddMedicine and handleEditMedicine read it: a blank
\* number field counts 0 (setup-database.md 287-293, 312-318)
formMedicine(form) ==
    Spread(form,
           [stock |-> OrElse(parseInt(form, "stock"), 0),
            minStock |-> OrElse(parseInt(form, "minStock"), 0),
            maxStock |-> OrElse(parseInt(form, "maxStock"), 0),
            price |-> OrElse(parseFloat(form, "price"), 0)])

\* a handler that reports the refusal and submits the form all the same
HandleAddMedicineUnchecked(c, reach) ==
    LET data == formMedicine(medicineForm)
    IN /\ addMedicine(c, data, reach)
       /\ IF ~validateMedicine(data) THEN toast("handleAddMedicine", Refused)
          ELSE UNCHANGED toasts
       /\ UNCHANGED <<medicines, cart, medicineForm>>

\* handleAddMedicine up to its await (setup-database.md 286-299)
HandleAddMedicine(c, reach) ==
    LET data == formMedicine(medicineForm)
    IN IF ~validateMedicine(data)
       THEN /\ toast("handleAddMedicine", Refused)
            /\ UNCHANGED <<envVars, browserVars, remoteVars, storage, calls, nids, medicines, cart, medicineForm>>
       ELSE /\ addMedicine(c, data, reach)
            /\ UNCHANGED uiVars

\* handleEditMedicine up to its await, medicine k of the list being the selected one
\* (setup-database.md 309-324)
HandleEditMedicine(c, k, reach) ==
    LET data == formMedicine(medicineForm)
    IN /\ k \in 1..Len(medicines)
       /\ IF ~validateMedicine(data)
          THEN /\ toast("handleEditMedicine", Refused)
               /\ UNCHANGED <<envVars, browserVars, remoteVars, storage, calls, nids, medicines, cart, medicineForm>>
          ELSE /\ updateMedicine(c, medicines[k].id, data, reach)
               /\ UNCHANGED uiVars

\* validation.ts validatePrescription (119-150), on the fields the model carries
validatePrescription(data) ==
    /\ Len(Trim(data.patientName)) >= 2
    /\ Len(Trim(data.doctorName)) >= 2
    /\ "patientAge" \in DOMAIN data => data.patientAge >= 0 /\ data.patientAge <= 150
    /\ data.medicines # <<>>
    /\ \A i \in 1..Len(data.medicines) : Len(Trim(data.medicines[i])) >= 2

\* the prescription form as handleAddPrescription reads it: a blank age is left out,
\* blank medicine lines are dropped (PrescriptionManagement 188-195)
formPrescription(prescriptionForm) ==
    Spread(Pick(prescriptionForm, {"patientName", "patientAge", "doctorName"}),
           [medicines |-> SelectSeq(prescriptionForm.medicines, LAMBDA med : Trim(med) # <<>>)])

\* handleAddPrescription up to its await (PrescriptionManagement 187-204)
HandleAddPrescription(c, prescriptionForm, reach) ==
    LET data == formPrescription(prescriptionForm)
    IN IF ~validatePrescription(data)
       THEN /\ toast("handleAddPrescription", Refused)
            /\ UNCHANGED <<envVars, browserVars, remoteVars, storage, calls, nids, medicines, cart, medicineForm>>
       ELSE /\ addPrescription(c, data, reach)
            /\ UNCHANGED uiVars

\* the three handlers after their await: the dialog closes and the inventory screen
\* loads its list again (setup-database.md 299-303, 324-329; PrescriptionManagement
\* 204-208, whose list the model does not carry)
FormSaved(c, reach) ==
    /\ calls[c].pc = "done"
    /\ calls[c].op \in {"addMedicine", "updateMedicine", "addPrescription"}
    /\ calls' = [calls EXCEPT ![c].pc = "shown"]
    /\ IF calls[c].op = "addPrescription"
       THEN UNCHANGED <<medicines, medicineForm>>
       ELSE loadMedicines(reach) /\ medicineForm' = BlankForm
    /\ UNCHANGED <<envVars, browserVars, remoteVars, storage, nids, cart, toasts>>

\* what the medicine form may hold: a name of one letter, no maximum stock
InventoryForms ==
    {[name |-> Ab, category |-> PainRelief, manufacturer |-> PharmaCorp, stock |-> 1,
      maxStock |-> MaxStock + 1, price |-> 500],
     [name |-> <<"A", " ">>, category |-> PainRelief, manufacturer |-> PharmaCorp,
      stock |-> 1, maxStock |-> MaxStock + 1, price |-> 500],
     [name |-> Ab, category |-> PainRelief, manufacturer |-> PharmaCorp, stock |-> 1,
      price |-> 500]}

\* what the prescription form may hold: no medicine but a blank line, an age of 200
PrescriptionForms ==
    {[patientName |-> Customer, doctorName |-> Ab, medicines |-> <<Paracetamol, <<" ">> >>],
     [patientName |-> Customer, doctorName |-> Ab, medicines |-> << <<" ">> >>],
     [patientName |-> Customer, patientAge |-> 200, doctorName |-> Ab,
      medicines |-> <<Paracetamol>>]}

\* the screens are up, the remote having been out of reach when the list was loaded,
\* and the first medicine of the list is in the cart
InitForms ==
    /\ clock = 0
    /\ stock_moves = <<>>
    /\ sales = <<>>
    /\ sale_items = <<>>
    /\ calls = [c \in Calls |-> IdleCall]
    /\ toasts = {}
    /\ medicineForm \in InventoryForms
    /\ InitBrowser
    /\ nids = 0
    /\ dbInit \in BOOLEAN
    /\ meds = IF dbInit THEN InitMeds(MaxStock) ELSE NoRows
    /\ storage = InitStorage(MaxStock)
    /\ medicines = storage.medicines
    /\ cart = <<cartItem(medicines[1])>>

NextForms ==
    \/ \E c \in 1..MaxSales, reach \in BOOLEAN : HandleAddMedicine(c, reach)
    \/ \E c \in 1..MaxSales, k \in 1..Len(medicines), reach \in BOOLEAN :
          HandleEditMedicine(c, k, reach)
    \/ \E c \in 1..MaxSales, prescriptionForm \in PrescriptionForms, reach \in BOOLEAN :
          HandleAddPrescription(c, prescriptionForm, reach)
    \/ \E c \in 1..MaxSales, reach \in BOOLEAN : FormSaved(c, reach)
    \/ \E c \in 1..MaxSales, customerInfo \in CustomerInfos, reach \in BOOLEAN :
          ProcessSale(c, customerInfo, reach)
    \/ \E c \in 1..MaxSales : SaleItemRead(c)
    \/ \E c \in 1..MaxSales, reach \in BOOLEAN : SaleCompleted(c, reach)

SpecForms == InitForms /\ [][NextForms]_vars

-----------------------------------------------------------------------------
(* The medicine validator on the forms the inventory screen can submit *)

\* a field that is left blank or holds one of the values
Optional(f, values) == {EmptyObject} \cup {[g \in {f} |-> v] : v \in values}

\* what the medicine form may hold: short and proper texts, numbers or blanks
ValidatorForms ==
    {Spread(Spread([name |-> n, category |-> cat, manufacturer |-> PharmaCorp],
                   Spread(st, mn)),
            Spread(mx, pr)) :
        n \in {Ab, <<"A", " ">>}, cat \in {PainRelief, <<"P">>},
        st \in Optional("stock", {-1, 1}), mn \in Optional("minStock", 0..3),
        mx \in Optional("maxStock", 0..3), pr \in Optional("price", {500})}

InitValidate ==
    /\ clock = 0
    /\ stock_moves = <<>>
    /\ sales = <<>>
    /\ sale_items = <<>>
    /\ calls = [c \in Calls |-> IdleCall]
    /\ toasts = {}
    /\ medicineForm \in ValidatorForms
    /\ InitBrowser
    /\ nids = 0
    /\ dbInit \in BOOLEAN
    /\ meds = IF dbInit THEN InitMeds(MaxStock) ELSE NoRows
    /\ storage = InitStorage(MaxStock)
    /\ medicines = storage.medicines
    /\ cart = <<>>

NextValidate ==
    \/ \E c \in 1..MaxSales, reach \in BOOLEAN : HandleAddMedicine(c, reach)
    \/ \E c \in 1..MaxSales, k \in 1..Len(medicines), reach \in BOOLEAN :
          HandleEditMedicine(c, k, reach)
    \/ \E c \in Calls, reach \in BOOLEAN : FormSaved(c, reach)

SpecValidate == InitValidate /\ [][NextValidate]_vars

-----------------------------------------------------------------------------
(* Login: initializeDatabase (client.tsx 682-733), which AuthProvider awaits when   *)
(* a user logs in.  Its requests are taken in one step.                             *)

\* a list that holds the records of the local store
toInitializeFromStore == storage.medicines

\* for (const medicine of sampleMedicines) (client.tsx 693)
toInitialize == sampleMedicines(MaxStock, MaxStock)

\* one addMedicine of the loop on the stores w: the row is inserted, or the record is
\* added to the local store (client.tsx 695-707, 258-275)
addedTo(w, medicine, reach) ==
    LET new == newMedicine(medicine, w.nids + 1)
        n == Cardinality(DOMAIN w.meds) + 1
        row == insertMed(medicineData(new), n)
    IN IF reach /\ dbInit /\ medicineRequestError(new) = "none"
       THEN [w EXCEPT !.nids = @ + 1,
                      !.meds = [id \in DOMAIN w.meds \cup {row.id} |->
                                  IF id = row.id THEN row ELSE w.meds[id]]]
       ELSE [w EXCEPT !.nids = @ + 1, !.storage = storageAdd(@, "medicines", new)]

\* the loop over the medicines, request k + 1 of the function being for medicine k
RECURSIVE addedAll(_, _, _, _)
addedAll(w, list, k, reaches) ==
    IF k > Len(list) THEN w
    ELSE addedAll(addedTo(w, Pick(list[k], {"name", "category", "manufacturer", "stock",
                                            "minStock", "maxStock", "price"}),
                          reaches[k + 1]),
                  list, k + 1, reaches)

\* initializeDatabase: nothing is done when getMedicines lists a medicine; otherwise
\* the sample medicines are added, then the sample prescriptions, whose insert the
\* handler never manages (see rxInsertFails)
InitializeDatabase(reaches) ==
    LET existing == IF reaches[1] /\ dbInit
                    THEN Cardinality({id \in DOMAIN meds : meds[id].active})
                    ELSE Len(storageGet("medicines"))
        w == addedAll([meds |-> meds, storage |-> storage, nids |-> nids],
                      toInitialize, 1, reaches)
        prescription == Pick(samplePrescriptions[1], {"patientName", "doctorName"})
    IN /\ DOMAIN reaches = 1..(Len(toInitialize) + 1)
       /\ nids + Len(toInitialize) + 1 <= MaxIds
       /\ IF existing > 0
          THEN UNCHANGED <<meds, storage, nids>>
          ELSE /\ meds' = w.meds
               /\ storage' = storageAdd(w.storage, "prescriptions",
                                        newPrescription(prescription, w.nids + 1))
               /\ nids' = w.nids + 1
       /\ UNCHANGED <<envVars, browserVars, stock_moves, sales, sale_items, calls, uiVars>>

\* POST /init-db (index.tsx 62-84): the handler awaits a select on meds inside a try
\* and answers 'success' unless the await throws.  The query resolves with
\* {data, error} for a missing table, as the handlers that read `error` from it show
\* (index.tsx 91-105), so nothing is thrown whether the table exists or not.
initDbResponse ==
    LET thrown == FALSE
    IN IF thrown THEN [ok |-> FALSE, status |-> "manual_setup_required"]
       ELSE [ok |-> TRUE, status |-> "success"]

\* attemptAutoInit (DatabaseSetupNotice.tsx 18-63): fetch throws, or the answer says
\* 'success', or it says anything else
AttemptAutoInit(reach) ==
    /\ setupStatus' = IF ~reach THEN "manual_required"
                      ELSE IF initDbResponse.ok /\ initDbResponse.status = "success"
                      THEN "success"
                      ELSE "manual_required"
    /\ UNCHANGED <<envVars, remoteVars, storage, calls, nids, uiVars, localStorage, tabs,
                   validation>>

\* the medicine the user adds with call c: each call its own name
formOf(c) ==
    [name |-> [i \in 1..(c + 1) |-> "x"], category |-> PainRelief,
     manufacturer |-> PharmaCorp, stock |-> 1, minStock |-> 0, maxStock |-> MaxStock + 1,
     price |-> 500]

\* the schema is installed or not; an earlier session may have deleted the rows the
\* migration script inserts, which leaves them inactive
InitLogin ==
    /\ InitCommon
    /\ nids = 0
    /\ dbInit \in BOOLEAN
    /\ \E active \in BOOLEAN :
          meds = IF dbInit
                 THEN [id \in {"u1", "u2"} |-> [InitMeds(MaxStock)[id] EXCEPT !.active = active]]
                 ELSE NoRows
    /\ storage = InitStorage(MaxStock)

NextLogin ==
    \/ \E reaches \in [1..(Len(toInitialize) + 1) -> BOOLEAN] : InitializeDatabase(reaches)
    \/ \E c \in Calls, reach \in BOOLEAN : AddMedicine(c, formOf(c), reach)
    \/ \E c \in Calls, id \in {"u1"} \cup (LocalIds("medicines") \cap {"med_001", "id_1"}),
          reach \in BOOLEAN : DeleteMedicine(c, id, reach)
    \/ \E c \in Calls, reach \in BOOLEAN : GetMedicines(c, reach)
    \/ \E reach \in BOOLEAN : AttemptAutoInit(reach)

SpecLogin == InitLogin /\ [][NextLogin]_vars

-----------------------------------------------------------------------------
(* The status specification: prescriptions and tickets change status *)

Hi == <<"H", "i">>

\* the ticket an earlier session left in the local store
shelfTickets ==
    << [id |-> "id_1", subject |-> Hi, status |-> "open", createdAt |-> 0, updatedAt |-> 0] >>

PrescriptionIds == {"presc_001", "presc_404"}
PrescriptionStatuses == {"pending", "verified", "dispensed"}
TicketIds == {"id_1", "id_2", "id_404"}
TicketStatuses == {"open", "resolved"}

InitStatus ==
    /\ InitCommon
    /\ nids = Len(shelfTickets)
    /\ dbInit \in BOOLEAN
    /\ meds = IF dbInit THEN InitMeds(MaxStock) ELSE NoRows
    /\ storage = [InitStorage(MaxStock) EXCEPT !.tickets = shelfTickets]

NextStatus ==
    \/ \E c \in Calls, id \in PrescriptionIds, status \in PrescriptionStatuses,
          reach \in BOOLEAN : UpdatePrescriptionStatus(c, id, status, reach)
    \/ \E c \in Calls, reach \in BOOLEAN : CreateTicket(c, [subject |-> Hi], reach)
    \/ \E c \in Calls, id \in TicketIds, status \in TicketStatuses,
          reach \in BOOLEAN : UpdateTicketStatus(c, id, status, reach)
    \/ Tick

SpecStatus == InitStatus /\ [][NextStatus]_vars

-----------------------------------------------------------------------------
(* The fallback specification: every method of PharmacyAPI is called while no       *)
(* remote call can succeed: the schema is not installed, or fetch fails.            *)

MedicineIds == {"med_001", "med_404"}

aMedicine ==
    [name |-> Ab, category |-> PainRelief, manufacturer |-> PharmaCorp, stock |-> MaxStock,
     minStock |-> 0, maxStock |-> MaxStock + 1, price |-> 500]

aPrescription == [patientName |-> Hi, doctorName |-> Ab]

anEmployee == [name |-> Hi, role |-> "Cashier"]

InitApi ==
    /\ InitCommon
    /\ nids = 0
    /\ dbInit = FALSE
    /\ meds = NoRows
    /\ storage = InitStorage(MaxStock)

NextApi ==
    \/ \E c \in Calls, reach \in BOOLEAN : GetMedicines(c, reach)
    \/ \E c \in Calls, reach \in BOOLEAN : AddMedicine(c, aMedicine, reach)
    \/ \E c \in Calls, id \in MedicineIds, reach \in BOOLEAN :
          UpdateMedicine(c, id, [price |-> 1000], reach)
    \/ \E c \in Calls, id \in MedicineIds, reach \in BOOLEAN : DeleteMedicine(c, id, reach)
    \/ \E c \in Calls, id \in StockIds, r \in StockRequests, reach \in BOOLEAN :
          UpdateStock(c, id, r.quantity, r.type, reach)
    \/ \E c \in Calls, reach \in BOOLEAN : GetSales(c, reach)
    \/ \E c \in Calls, reach \in BOOLEAN :
          CreateSale(c, saleData(<<saleItem("med_001", 1)>>, "cash"), reach)
    \/ \E c \in Calls, id \in {"sale_001", "sale_404"}, reach \in BOOLEAN :
          GetSaleById(c, id, reach)
    \/ \E c \in Calls, reach \in BOOLEAN : GetPrescriptions(c, reach)
    \/ \E c \in Calls, reach \in BOOLEAN : AddPrescription(c, aPrescription, reach)
    \/ \E c \in Calls, id \in PrescriptionIds, reach \in BOOLEAN :
          UpdatePrescriptionStatus(c, id, "verified", reach)
    \/ \E c \in Calls, id \in PrescriptionIds, approved \in BOOLEAN, reach \in BOOLEAN :
          VerifyPrescription(c, id, [approved |-> approved], reach)
    \/ \E c \in Calls, failure \in RemoteFailures : GetEmployeesFailing(c, failure)
    \/ \E c \in Calls, reach \in BOOLEAN : AddEmployee(c, anEmployee, reach)
    \/ \E c \in Calls, reach \in BOOLEAN : ClockIn(c, "emp_001", reach)
    \/ \E c \in Calls, reach \in BOOLEAN : ClockOut(c, "emp_001", reach)
    \/ \E c \in Calls, reach \in BOOLEAN : GetTimeEntries(c, "emp_001", reach)
    \/ \E c \in Calls, failure \in RemoteFailures : GetTicketsFailing(c, failure)
    \/ \E c \in Calls, reach \in BOOLEAN : CreateTicket(c, [subject |-> Hi], reach)
    \/ \E c \in Calls, id \in {"id_1", "id_404"}, reach \in BOOLEAN :
          UpdateTicketStatus(c, id, "resolved", reach)
    \/ \E c \in Calls, failure \in RemoteFailures : GetDashboardStatsFailing(c, failure)
    \/ \E c \in Calls, failure \in RemoteFailures : GetRecentActivityFailing(c, failure)
    \/ \E c \in Calls, failure \in RemoteFailures : GetLowStockAlertsFailing(c, failure)
    \/ \E c \in Calls, reach \in BOOLEAN : GetSalesReport(c, 0, MaxClock, reach)
    \/ \E c \in Calls, reach \in BOOLEAN : GetInventoryReport(c, reach)
    \/ \E c \in Calls, reach \in BOOLEAN : GetEmployeeReport(c, clock, reach)
    \/ \E c \in Calls, reach \in BOOLEAN : GetPrescriptionReport(c, 0, MaxClock, reach)

SpecApi == InitApi /\ [][NextApi]_vars

-----------------------------------------------------------------------------
(* Claims about stock *)

Done(c) == calls[c].pc = "done"

\* the store that holds medicine id, and its stock there, in a record of Stocks
StockIn(stocks, id) ==
    IF id \in DOMAIN stocks.remote THEN stocks.remote[id] ELSE stocks.local[id]

Known(stocks, id) == id \in DOMAIN stocks.remote \cup DOMAIN stocks.local

\* C1: when the stock handler is reached and the quantity of a subtraction exceeds
\* the medicine's stock, updateStock fails with the insufficient-stock error and no
\* stock, remote or local, changes.
C1_InsufficientStockFails ==
    [][\A c \in Calls :
          ( /\ calls[c].pc = "idle"
            /\ calls'[c].op = "updateStock"
            /\ calls'[c].type = "subtract"
            /\ calls'[c].status # 0
            /\ calls'[c].id \in DOMAIN meds
            /\ calls'[c].quantity > meds[calls'[c].id].stock )
          => ( /\ calls'[c].pc = "done"
               /\ ~calls'[c].ok
               /\ calls'[c].error = "Insufficient stock"
               /\ Stocks' = Stocks )]_vars

\* C2: a subtraction served by the local fallback for a medicine of the local store
\* leaves that medicine's stock at max(0, stock_before - q) and every other
\* medicine's stock as it was.
C2_LocalSubtractClamps ==
    [][\A c \in Calls :
          ( /\ calls[c].pc = "idle"
            /\ calls'[c].pc = "done"
            /\ calls'[c].op = "updateStock"
            /\ calls'[c].type = "subtract"
            /\ calls'[c].path = "local"
            /\ calls'[c].id \in DOMAIN Stocks.local )
          => ( /\ DOMAIN Stocks'.local = DOMAIN Stocks.local
               /\ Stocks'.remote = Stocks.remote
               /\ \A id \in DOMAIN Stocks.local :
                     Stocks'.local[id] =
                        IF id = calls'[c].id
                        THEN Max(0, Stocks.local[id] - calls'[c].quantity)
                        ELSE Stocks.local[id] )]_vars

\* a local subtraction of more than the stock has been served: the stock is 0
C2_Witness ==
    \E c \in Calls :
       /\ Done(c) /\ calls[c].op = "updateStock" /\ calls[c].type = "subtract"
       /\ calls[c].path = "local" /\ calls[c].ok
       /\ calls[c].quantity > calls[c].previousStock
       /\ calls[c].previousStock > 0
       /\ calls[c].value.medicine.stock = 0
       /\ Stocks.local[calls[c].id] = 0

\* C3: every medicine's stock, remote or local, is >= 0 in every reachable state.
C3_StockNonNegative ==
    /\ \A id \in DOMAIN Stocks.remote : Stocks.remote[id] >= 0
    /\ \A id \in DOMAIN Stocks.local : Stocks.local[id] >= 0

\* a remote subtraction and a sale of the same medicine have overlapped, both were
\* served, and the medicine's stock is 0
C3_Witness ==
    \E c, d \in Calls :
       /\ c # d /\ Done(c) /\ Done(d) /\ ~calls[c].solo /\ ~calls[d].solo
       /\ calls[c].op = "updateStock" /\ calls[c].type = "subtract"
       /\ calls[c].path = "remote" /\ calls[c].ok
       /\ calls[d].op = "createSale" /\ calls[d].path = "remote"
       /\ \E i \in 1..Len(calls[d].sale.items) :
             calls[d].sale.items[i].medicineId = calls[c].id
       /\ Stocks.remote[calls[c].id] = 0

\* calls c and d are two subtractions the stock handler served for the same
\* medicine, both having read the same stock, and no other call has started
BothReadFirst(c, d) ==
    /\ c # d /\ Done(c) /\ Done(d)
    /\ calls[c].op = "updateStock" /\ calls[d].op = "updateStock"
    /\ calls[c].type = "subtract" /\ calls[d].type = "subtract"
    /\ calls[c].path = "remote" /\ calls[d].path = "remote"
    /\ calls[c].ok /\ calls[d].ok
    /\ calls[c].id = calls[d].id
    /\ calls[c].previousStock = calls[d].previousStock
    /\ \A e \in Calls \ {c, d} : calls[e].pc = "idle"

\* C4: when two subtractions of the same medicine both read the stock before either
\* writes, both succeed and the final stock reflects only one of them.
C4_LostUpdate ==
    \A c, d \in Calls :
       BothReadFirst(c, d)
       => /\ meds[calls[c].id].stock \in
                {calls[c].previousStock - calls[c].quantity,
                 calls[c].previousStock - calls[d].quantity}
          /\ meds[calls[c].id].stock #
                calls[c].previousStock - calls[c].quantity - calls[d].quantity

\* both succeeded although together they handed out more than the stock held
C4_Witness ==
    \E c, d \in Calls :
       /\ BothReadFirst(c, d)
       /\ calls[c].quantity + calls[d].quantity > calls[c].previousStock
       /\ meds[calls[c].id].stock = calls[c].previousStock - calls[d].quantity

\* C5: after createSale has completed for a sale whose quantities do not exceed the
\* stocks, each sold medicine's stock is lower by its line quantity, whichever path
\* served the call (no other call ran meanwhile or since).
C5_SaleReducesStock ==
    \A c \in Calls :
       ( /\ Done(c) /\ calls[c].op = "createSale" /\ calls[c].ok /\ calls[c].solo
         /\ \A d \in Calls : d > c => calls[d].pc = "idle"
         /\ \A i \in 1..Len(calls[c].sale.items) :
               /\ Known(calls[c].before, calls[c].sale.items[i].medicineId)
               /\ calls[c].sale.items[i].quantity
                     <= StockIn(calls[c].before, calls[c].sale.items[i].medicineId) )
       => \A i \in 1..Len(calls[c].sale.items) :
             StockIn(Stocks, calls[c].sale.items[i].medicineId)
                = StockIn(calls[c].before, calls[c].sale.items[i].medicineId)
                  - calls[c].sale.items[i].quantity

-----------------------------------------------------------------------------
(* Claims about medicines *)

VisibleFields == {"name", "category", "manufacturer", "stock", "minStock", "maxStock", "price"}

\* entry e shows the visible fields of medicine m
SameVisible(e, m) == \A f \in VisibleFields : f \in DOMAIN e /\ e[f] = m[f]

\* C7: after addMedicine(m) has resolved, the getMedicines that follows it returns a
\* list with an entry whose name, category, manufacturer, stock, minStock, maxStock
\* and price are those of m, whichever path serves each of the two calls.
C7_AddThenGetRoundTrip ==
    \A c \in Calls :
       ( /\ c + 1 \in Calls
         /\ Done(c) /\ calls[c].op = "addMedicine" /\ calls[c].ok
         /\ Done(c + 1) /\ calls[c + 1].op = "getMedicines" /\ calls[c + 1].ok )
       => \E k \in 1..Len(calls[c + 1].value.medicines) :
             SameVisible(calls[c + 1].value.medicines[k], calls[c].medicine)

\* C9: a medicine created by addMedicine with valid fields is stored as a record with
\* the submitted fields and active = true, on the remote path and on the local one.
C9_StoredWithActiveDefault ==
    \A c \in Calls :
       ( /\ Done(c) /\ calls[c].op = "addMedicine" /\ calls[c].ok
         /\ validateMedicine(calls[c].medicine) )
       => LET m == calls[c].medicine
              id == calls[c].value.medicine.id
          IN IF calls[c].path = "remote"
             THEN /\ id \in DOMAIN meds
                  /\ meds[id].name = m.name /\ meds[id].cat = m.category
                  /\ meds[id].mfg = m.manufacturer /\ meds[id].stock = m.stock
                  /\ meds[id].min_stock = m.minStock /\ meds[id].max_stock = m.maxStock
                  /\ meds[id].price = m.price /\ meds[id].active = TRUE
             ELSE /\ id \in LocalIds("medicines")
                  /\ SameVisible(LocalItem("medicines", id), m)
                  /\ "active" \in DOMAIN LocalItem("medicines", id)
                  /\ LocalItem("medicines", id).active = TRUE

-----------------------------------------------------------------------------
(* Claims about the sales screen *)

\* the sum of price x quantity over the lines
RECURSIVE LineSum(_)
LineSum(items) ==
    IF items = <<>> THEN 0
    ELSE Head(items).price * Head(items).quantity + LineSum(Tail(items))

\* the totals the store that served call c holds for the sale of call c
RecordedTotals(c) ==
    IF calls[c].path = "remote"
    THEN {sales[k].total : k \in {j \in 1..Len(sales) : sales[j].id = calls[c].saleRow.id}}
    ELSE {storage.sales[k].total :
             k \in {j \in 1..Len(storage.sales) : storage.sales[j].id = calls[c].sale.id}}

\* C6: a sale processSale submits carries the cart of that moment and, as its total,
\* the sum of price x quantity over the cart's lines; that total is the one the store
\* has recorded for the sale when the call completes.
C6_TotalIsCartSum ==
    [][\A c \in Calls :
          /\ (calls[c].pc = "idle" /\ calls'[c].op = "createSale")
             => /\ calls'[c].sale.items = cart
                /\ calls'[c].sale.total = LineSum(cart)
          /\ (calls[c].pc # "done" /\ calls'[c].pc = "done" /\ calls'[c].op = "createSale")
             => RecordedTotals(c)' = {LineSum(calls'[c].sale.items)}]_vars

\* the remote handler has recorded 40.00 for a sale of 2 at 5.00 and 3 at 10.00
C6_Witness ==
    \E c \in Calls :
       /\ calls[c].pc \in {"done", "shown"} /\ calls[c].op = "createSale"
       /\ calls[c].path = "remote"
       /\ Len(calls[c].sale.items) = 2
       /\ calls[c].sale.items[1].quantity = 2 /\ calls[c].sale.items[1].price = 500
       /\ calls[c].sale.items[2].quantity = 3 /\ calls[c].sale.items[2].price = 1000
       /\ calls[c].sale.total = 4000
       /\ RecordedTotals(c) = {4000}

-----------------------------------------------------------------------------
(* Claims about status updates *)

\* record r without its updatedAt
WithoutUpdatedAt(r) == [f \in DOMAIN r \ {"updatedAt"} |-> r[f]]

\* stores a and b hold the same records in the same places, updatedAt apart
SameApartFromUpdatedAt(a, b) ==
    /\ DOMAIN a = DOMAIN b
    /\ \A key \in DOMAIN a :
          /\ Len(a[key]) = Len(b[key])
          /\ \A k \in 1..Len(a[key]) : WithoutUpdatedAt(a[key][k]) = WithoutUpdatedAt(b[key][k])

StatusKey(op) == IF op = "updatePrescriptionStatus" THEN "prescriptions" ELSE "tickets"

\* call d repeats the call before it: same status update, same id, same status
Repeats(d) ==
    /\ d - 1 \in Calls
    /\ calls[d].pc = "idle" /\ calls'[d].pc = "done"
    /\ calls'[d].op \in {"updatePrescriptionStatus", "updateTicketStatus"}
    /\ calls[d - 1].op = calls'[d].op
    /\ calls[d - 1].id = calls'[d].id
    /\ calls[d - 1].newStatus = calls'[d].newStatus

\* C8: a status update that repeats the one before it, same id and same status,
\* resolves, leaves the entity in that status and leaves the store as the first call
\* left it, updatedAt apart: nothing is added, removed, duplicated or otherwise changed.
C8_StatusUpdateIdempotent ==
    [][\A d \in Calls :
          Repeats(d)
          => /\ calls'[d].ok
             /\ SameApartFromUpdatedAt(storage, storage')
             /\ remoteVars' = remoteVars
             /\ \A k \in 1..Len(storage'[StatusKey(calls'[d].op)]) :
                   storage'[StatusKey(calls'[d].op)][k].id = calls'[d].id
                   => storage'[StatusKey(calls'[d].op)][k].status = calls'[d].newStatus]_vars

\* a prescription and a ticket can each have had the same update twice, the second
\* one later than the first
RepeatedLater(op, id, field) ==
    /\ calls[1].op = op /\ calls[2].op = op
    /\ Done(1) /\ Done(2)
    /\ calls[1].id = id /\ calls[2].id = id
    /\ calls[1].newStatus = calls[2].newStatus
    /\ calls[1].value[field].status # "pending"
    /\ calls[1].value[field].status # "open"
    /\ calls[2].value[field].updatedAt > calls[1].value[field].updatedAt
    /\ Len(storage[StatusKey(op)]) = 1

C8_Witness ==
    \/ RepeatedLater("updatePrescriptionStatus", "presc_001", "prescription")
    \/ RepeatedLater("updateTicketStatus", "id_1", "ticket")

-----------------------------------------------------------------------------
(* Claims about the fallback *)

\* the remote attempt of call c has failed and the call is over
FailedRemotely(c) == Done(c) /\ calls[c].serverError # "none"

-----------------------------------------------------------------------------
(* Claims about the screens' validation *)

\* the handlers that validate a form before they submit it
Validating == {"handleAddMedicine", "handleEditMedicine", "handleAddPrescription",
               "processSale"}

\* whether the validator of its screen accepts what call d submits
Accepted(d) ==
    CASE d.op = "addMedicine" -> validateMedicine(d.medicine)
      [] d.op = "updateMedicine" -> validateMedicine(d.arg)
      [] d.op = "addPrescription" -> validatePrescription(d.arg)
      [] d.op = "createSale" -> validateSale(d.sale)
      [] OTHER -> TRUE

\* C11: a handler that reports a refusal of its validator starts no PharmacyAPI call
\* and changes neither store, and every call a handler starts carries a submission its
\* validator accepts.
C11_RefusedBeforeAnyCall ==
    [][/\ (\E t \in toasts' \ toasts : t.error = Refused)
          => UNCHANGED <<remoteVars, storage, calls, nids>>
       /\ \A c \in Calls :
             (calls[c].pc = "idle" /\ calls'[c].pc # "idle") => Accepted(calls'[c])]_vars

\* each of the four handlers has refused a submission, and no call has been made
C11_Witness ==
    /\ \A by \in Validating : [by |-> by, error |-> Refused] \in toasts
    /\ \A c \in Calls : calls[c].pc = "idle"
    /\ storage = InitStorage(MaxStock)
    /\ cart # <<>>

-----------------------------------------------------------------------------
(* Claims about the two paths *)

\* call c is served by the local store in this step
FallsBack(c) == calls[c].path # "local" /\ calls'[c].path = "local"

\* C12: the local store changes only in a step in which a call falls back to it, and a
\* call falls back only when its own request failed: fetch threw, or the answer was not
\* 2xx.  No call is diverted because an earlier one failed.
C12_RemoteFirst ==
    [][/\ storage' # storage => \E c \in Calls : FallsBack(c)
       /\ \A c \in Calls :
             FallsBack(c) =>
                \/ calls'[c].status = 0 /\ calls'[c].serverError = "Failed to fetch"
                \/ /\ calls'[c].status >= 400
                   /\ calls'[c].serverError \notin {"none", "Backend disabled"}]_vars

\* a call whose fetch failed was served by the local store, and the call after it was
\* answered by the remote handler
C12_Witness ==
    \E c, d \in Calls :
       /\ c < d
       /\ calls[c].pc = "done" /\ calls[c].path = "local" /\ calls[c].status = 0
       /\ calls[d].pc = "done" /\ calls[d].path = "remote" /\ calls[d].status = 200

\* the calls that added their medicine to the local store, the remote attempt having
\* failed
AddedLocally == {c \in Calls : /\ calls[c].op = "addMedicine" /\ calls[c].pc = "done"
                               /\ calls[c].path = "local"}

Shape(call) ==
    [keys |-> DOMAIN call.value,
     fields |-> IF call.op = "getMedicines"
                THEN {DOMAIN call.value.medicines[i] : i \in 1..Len(call.value.medicines)}
                ELSE {DOMAIN call.value.medicine}]

\* C14: two calls of one operation, the one served by the remote handler and the other
\* by the local store, resolve with results of one shape: the same top-level keys and
\* the same field names on every entity.
C14_SameShape ==
    \A c, d \in Calls :
       (/\ Done(c) /\ Done(d) /\ calls[c].op = calls[d].op
        /\ calls[c].op \in {"getMedicines", "addMedicine"}
        /\ calls[c].path = "remote" /\ calls[d].path = "local")
       => /\ Shape(calls[c]).keys = Shape(calls[d]).keys
          /\ \A f \in Shape(calls[c]).fields, g \in Shape(calls[d]).fields : f = g

\* C15: a list read whose request reaches the handler while the tables are missing is
\* served as one whose request fails: by the local store, with the store's records.
C15_TableMissingServedLocally ==
    [][\A c \in Calls :
          (/\ calls[c].pc = "idle" /\ calls'[c].pc = "done"
           /\ calls'[c].op \in {"getMedicines", "getSales"}
           /\ ~dbInit /\ calls'[c].status # 0)
          => /\ calls'[c].path = "local"
             /\ calls'[c].op = "getMedicines" => calls'[c].value.medicines = storage.medicines
             /\ calls'[c].op = "getSales" => calls'[c].value.sales = storage.sales]_vars

-----------------------------------------------------------------------------
(* Claims about deleting a medicine *)

\* the ids of the medicines a getMedicines call resolved with
Listed(call) == {call.value.medicines[i].id : i \in 1..Len(call.value.medicines)}

\* the records of a list other than the one of the id
Others(list, id) == SelectSeq(list, LAMBDA item : item.id # id)

\* C16: the local path of deleteMedicine(id) removes the record from the store and
\* leaves the other records as they are; the remote path keeps every row, marks the row
\* of the id inactive and leaves the other rows as they are; a getMedicines that
\* follows and is served by the same path does not list the id.
C16_DeletedNotListed ==
    [][\A c \in Calls :
          /\ (/\ calls[c].pc = "idle" /\ calls'[c].pc = "done"
              /\ calls'[c].op = "deleteMedicine" /\ calls'[c].path = "local")
             => /\ storage'.medicines = Others(storage.medicines, calls'[c].id)
                /\ meds' = meds
          /\ (/\ calls[c].pc = "idle" /\ calls'[c].pc = "done"
              /\ calls'[c].op = "deleteMedicine" /\ calls'[c].path = "remote")
             => /\ DOMAIN meds' = DOMAIN meds
                /\ \A id \in DOMAIN meds :
                      IF id = calls'[c].id
                      THEN /\ ~meds'[id].active
                           /\ [meds'[id] EXCEPT !.active = TRUE, !.updated = 0]
                                = [meds[id] EXCEPT !.active = TRUE, !.updated = 0]
                      ELSE meds'[id] = meds[id]
                /\ storage' = storage
          /\ \A d \in Calls :
                (/\ c < d /\ calls'[c].pc = "done" /\ calls'[d].pc = "done"
                 /\ calls'[c].op = "deleteMedicine" /\ calls'[d].op = "getMedicines"
                 /\ calls'[c].path = calls'[d].path)
                => calls'[c].id \notin Listed(calls'[d])]_vars

\* the remote handler has marked row u1 inactive and kept it, and the getMedicines that
\* followed, served by the handler too, listed u2 and not u1
C16_Witness ==
    /\ calls[1].pc = "done" /\ calls[1].op = "deleteMedicine" /\ calls[1].id = "u1"
    /\ calls[1].path = "remote"
    /\ calls[2].pc = "done" /\ calls[2].op = "getMedicines" /\ calls[2].path = "remote"
    /\ "u1" \in DOMAIN meds /\ ~meds["u1"].active
    /\ Listed(calls[2]) = {"u2"}

-----------------------------------------------------------------------------
(* Claims about the time clock *)

\* isEmployeeClockedIn on a list of time entries: an entry of the employee that has a
\* clock-in time and no clock-out time
isEmployeeClockedIn(timeEntries, employeeId) ==
    \E i \in 1..Len(timeEntries) :
       /\ timeEntries[i].employeeId = employeeId
       /\ timeEntries[i].date = dateOf(clock)
       /\ "clockIn" \in DOMAIN timeEntries[i]
       /\ "clockOut" \notin DOMAIN timeEntries[i]

\* C17: after a clockIn served by the local fallback, and no clockOut since, a
\* getTimeEntries served by the local fallback lists an open entry of the employee.
C17_LocalClockInRecorded ==
    \A c, d \in Calls :
       (/\ c < d /\ Done(c) /\ Done(d)
        /\ calls[c].op = "clockIn" /\ calls[c].path = "local"
        /\ calls[d].op = "getTimeEntries" /\ calls[d].path = "local"
        /\ calls[d].id = calls[c].id
        /\ \A e \in Calls : (c < e /\ e < d) => calls[e].op # "clockOut")
       => isEmployeeClockedIn(calls[d].value.timeEntries, calls[c].id)

-----------------------------------------------------------------------------
(* Claims about the validator *)

\* the form as it is and as the handlers read it
Submissions == {medicineForm, formMedicine(medicineForm)}

\* C18: validateMedicine refuses every medicine whose minimum stock is not below its
\* maximum stock, whatever its other fields are.
C18_MinNotBelowMaxInvalid ==
    \A data \in Submissions :
       (/\ {"minStock", "maxStock"} \subseteq DOMAIN data
        /\ data.minStock >= data.maxStock)
       => ~validateMedicine(data)

\* a form whose every field is in order but for a minimum stock equal to the maximum
\* has been refused, and no call was made
C18_Witness ==
    /\ {"stock", "minStock", "maxStock", "price"} \subseteq DOMAIN medicineForm
    /\ medicineForm.name = Ab /\ medicineForm.category = PainRelief
    /\ medicineForm.stock = 1 /\ medicineForm.price = 500
    /\ medicineForm.minStock = 2 /\ medicineForm.maxStock = 2
    /\ validateMedicineLax(medicineForm)
    /\ [by |-> "handleAddMedicine", error |-> Refused] \in toasts
    /\ \A c \in Calls : calls[c].pc = "idle"

-----------------------------------------------------------------------------
(* Claims about the movement log *)

\* C19: a step that changes the stock of a row of meds appends to stock_moves a
\* movement of that medicine whose old_stock and new_stock are the stock before and
\* after the step.
C19_StockChangeLogged ==
    [][\A id \in DOMAIN meds :
          (id \in DOMAIN meds' /\ meds'[id].stock # meds[id].stock)
          => /\ Len(stock_moves') = Len(stock_moves) + 1
             /\ LET move == stock_moves'[Len(stock_moves')]
                IN /\ move.med_id = id
                   /\ move.old_stock = meds[id].stock
                   /\ move.new_stock = meds'[id].stock]_vars

-----------------------------------------------------------------------------
(* Claims about the sale handler *)

\* the rows POST /sales wrote for the sale of call c
SaleRecorded(c) == \E k \in 1..Len(sales) : sales[k].id = calls[c].saleRow.id

ItemsRecorded(c) ==
    Cardinality({k \in 1..Len(sale_items) : sale_items[k].sale_id = calls[c].saleRow.id})

DecrementsApplied(c) ==
    Cardinality({k \in 1..Len(stock_moves) :
                    /\ stock_moves[k].ref_type = "sale"
                    /\ stock_moves[k].ref_id = calls[c].saleRow.id})

\* C20: once POST /sales has answered for a sale, either the sale row, one sale_items
\* row for each of its lines and one stock decrement for each of its lines are all
\* there, or none of them is.
C20_SaleAllOrNothing ==
    \A c \in Calls :
       (Done(c) /\ calls[c].op = "createSale" /\ calls[c].path = "remote")
       => \/ /\ SaleRecorded(c)
             /\ ItemsRecorded(c) = Len(calls[c].sale.items)
             /\ DecrementsApplied(c) = Len(calls[c].sale.items)
          \/ /\ ~SaleRecorded(c)
             /\ ItemsRecorded(c) = 0
             /\ DecrementsApplied(c) = 0

-----------------------------------------------------------------------------
(* Claims about what the forms store *)

\* C21: with every medicine written through the add and edit forms, every row of meds
\* and every medicine of the local store has its minimum stock below its maximum.
C21_StoredMinBelowMax ==
    /\ \A id \in DOMAIN meds : meds[id].min_stock < meds[id].max_stock
    /\ \A k \in 1..Len(storage.medicines) :
          storage.medicines[k].minStock < storage.medicines[k].maxStock

-----------------------------------------------------------------------------
(* The Data Validation tests (test-all-functionality.tsx 565-621): a validator is   *)
(* run on a test case and its result kept                                           *)

\* validation.ts validateEmail: /^[^\s@]+@[^\s@]+\.[^\s@]+$/
validateEmail(email) ==
    \E at \in 2..Len(email) :
       /\ email[at] = "@"
       /\ \A k \in 1..Len(email) : email[k] = " " \/ email[k] = "@" => k = at
       /\ \E dot \in (at + 2)..(Len(email) - 1) : email[dot] = "."

\* validation.ts validateEmployee (198-233), on the fields the model carries: a missing
\* or empty name, email, role or department is refused
validateEmployee(data) ==
    /\ "name" \in DOMAIN data /\ Len(Trim(data.name)) >= 2
    /\ "email" \in DOMAIN data /\ validateEmail(data.email)
    /\ ("phone" \in DOMAIN data /\ data.phone # <<>>) => validatePhone(data.phone)
    /\ "role" \in DOMAIN data /\ Len(Trim(data.role)) >= 2
    /\ "department" \in DOMAIN data /\ Len(Trim(data.department)) >= 2
    /\ "salary" \in DOMAIN data => data.salary >= 0

\* the Medicine Validation test on one case (test-all-functionality.tsx 565-585)
MedicineValidationTest(testCase) ==
    /\ validation' = [of |-> "validateMedicine", data |-> testCase,
                      isValid |-> validateMedicine(testCase)]
    /\ UNCHANGED <<envVars, remoteVars, storage, calls, nids, uiVars, localStorage, tabs,
                   setupStatus>>

\* the Employee Validation test on one case (test-all-functionality.tsx 611-621)
EmployeeValidationTest(testCase) ==
    /\ validation' = [of |-> "validateEmployee", data |-> testCase,
                      isValid |-> validateEmployee(testCase)]
    /\ UNCHANGED <<envVars, remoteVars, storage, calls, nids, uiVars, localStorage, tabs,
                   setupStatus>>

\* medicines like the test's cases: texts that are empty, blank-padded or proper,
\* numbers that are negative, zero or positive, fields that are left out
MedicineCases ==
    {Spread(Spread([name |-> n, category |-> cat, manufacturer |-> mfg], Spread(st, pr)),
            Spread(mn, mx)) :
        n \in {<<>>, <<"A", " ">>, Ab, <<" ">> \o Ab}, cat \in {<<>>, <<"P", " ">>, PainRelief},
        mfg \in {<<>>, PharmaCorp},
        st \in Optional("stock", {-1, 0, 10}), pr \in Optional("price", {-1, 0, 599}),
        mn \in Optional("minStock", {1}), mx \in Optional("maxStock", {1})}

Email == <<"a", "@", "b", ".", "c">>

\* employees like the test's validEmployee, with fields left out or malformed
EmployeeCases ==
    {Spread(Spread(Spread([name |-> n], em), Spread(ph, role)), Spread(dept, sal)) :
        n \in {Hi, <<"H">>},
        em \in Optional("email", {Email, <<"a", "@", "b">>, <<"a", "b", ".", "c">>}),
        ph \in Optional("phone", {<<"+", "1", "5">>, <<"0">>}),
        role \in Optional("role", {Ab}),
        dept \in Optional("department", {Ab, <<"A">>}),
        sal \in Optional("salary", {-1, 100})}

InitTests ==
    /\ InitCommon
    /\ nids = 0
    /\ dbInit = FALSE
    /\ meds = NoRows
    /\ storage = InitStorage(MaxStock)

NextTests ==
    \/ \E testCase \in MedicineCases : MedicineValidationTest(testCase)
    \/ \E testCase \in EmployeeCases : EmployeeValidationTest(testCase)

SpecTests == InitTests /\ [][NextTests]_vars

-----------------------------------------------------------------------------
(* Claims about the validators *)

NoText(data) == data.name = <<>> \/ data.category = <<>> \/ data.manufacturer = <<>>

Negative(data) ==
    \/ "stock" \in DOMAIN data /\ data.stock < 0
    \/ "price" \in DOMAIN data /\ data.price < 0

FiveFields(data) == DOMAIN data = {"name", "category", "manufacturer", "stock", "price"}

\* C26, as stated: validateMedicine refuses a medicine with an empty text or a negative
\* stock or price, and accepts one whose name, category and manufacturer have 2
\* characters or more and whose stock and price are not negative, with no other field.
C26_AcceptsByLength ==
    validation # Null /\ validation.of = "validateMedicine"
    => LET data == validation.data
       IN /\ NoText(data) \/ Negative(data) => ~validation.isValid
          /\ ( /\ FiveFields(data) /\ ~Negative(data)
               /\ Len(data.name) >= 2 /\ Len(data.category) >= 2
               /\ Len(data.manufacturer) >= 2 )
             => validation.isValid

\* C26, amended: the lengths are those of the trimmed texts.
C26_AcceptsByTrimmedLength ==
    validation # Null /\ validation.of = "validateMedicine"
    => LET data == validation.data
       IN /\ NoText(data) \/ Negative(data) => ~validation.isValid
          /\ ( /\ FiveFields(data) /\ ~Negative(data)
               /\ Len(Trim(data.name)) >= 2 /\ Len(Trim(data.category)) >= 2
               /\ Len(Trim(data.manufacturer)) >= 2 )
             => validation.isValid

\* the validator has accepted a medicine of five fields whose name is padded
C26_Witness ==
    /\ validation # Null /\ validation.of = "validateMedicine"
    /\ FiveFields(validation.data)
    /\ validation.data.name = <<" ">> \o Ab
    /\ validation.isValid

\* C27: validateEmployee accepts an employee with a name of 2 characters or more, a
\* well-formed email, a well-formed phone number and a role, and no department.
C27_AcceptsWithoutDepartment ==
    ( /\ validation # Null /\ validation.of = "validateEmployee"
      /\ DOMAIN validation.data = {"name", "email", "phone", "role"}
      /\ Len(Trim(validation.data.name)) >= 2
      /\ validateEmail(validation.data.email)
      /\ validatePhone(validation.data.phone)
      /\ Len(Trim(validation.data.role)) >= 2 )
    => validation.isValid

-----------------------------------------------------------------------------
(* Browser sessions: each page load builds its own LocalStorageManager over the one *)
(* item "pharmacy_data" (client.tsx 113-193), and shows its own prescription screen *)

\* a session that re-reads the stored item before every operation
thisDataReloaded(t) == IF localStorage # Null THEN localStorage ELSE tabs[t].data

\* this.data of session t's LocalStorageManager (client.tsx 119)
thisData(t) == tabs[t].data

\* loadFromStorage (client.tsx 125-148): the stored item, or the samples
loadFromStorage == IF localStorage # Null THEN localStorage ELSE InitStorage(MaxStock)

\* session t loads the application: the constructor reads the stored item, and saves
\* the samples when there is none (client.tsx 121-123, 129-138, 193)
OpenTab(t) ==
    /\ tabs[t].data = Null
    /\ tabs' = [tabs EXCEPT ![t].data = loadFromStorage]
    /\ localStorage' = loadFromStorage
    /\ UNCHANGED <<envVars, remoteVars, storage, calls, nids, uiVars, pageVars>>

\* the list getPrescriptions resolves with over data (client.tsx 364-370)
listedPrescriptions(data, reach) ==
    IF reach THEN prescriptionsResponse.prescriptions ELSE data.prescriptions

\* loadPrescriptions, at mount and from the Refresh button (PrescriptionManagement
\* 90-106, 316-323)
LoadPrescriptions(t, reach) ==
    /\ tabs[t].data # Null
    /\ tabs' = [tabs EXCEPT ![t].prescriptions = listedPrescriptions(thisData(t), reach)]
    /\ UNCHANGED <<envVars, remoteVars, storage, calls, nids, uiVars, localStorage,
                   pageVars>>

\* update() of session t's store followed by the screen's reload: the item is saved
\* when the id is found (client.tsx 176-185)
updatedIn(t, id, updates, reach) ==
    LET data == storageUpdate(thisData(t), "prescriptions", id, updates)
    IN /\ tabs' = [tabs EXCEPT ![t] = [data |-> data,
                                       prescriptions |-> listedPrescriptions(data, reach)]]
       /\ localStorage' = IF findIndex(thisData(t).prescriptions, id, 1) # -1
                          THEN data ELSE localStorage

\* the button of entry k is shown for this status (PrescriptionManagement 523-542)
shown(t, k, status) ==
    /\ tabs[t].data # Null
    /\ k \in 1..Len(tabs[t].prescriptions)
    /\ "status" \in DOMAIN tabs[t].prescriptions[k]
    /\ tabs[t].prescriptions[k].status = status

\* handleVerifyPrescription on entry k, from the verify dialog its button opens: the
\* server has no route, so verifyPrescription runs its catch, whether fetch fails or
\* answers 404 (PrescriptionManagement 215-243, client.tsx 407-424)
HandleVerifyPrescription(t, k, approved, reach) ==
    /\ shown(t, k, "pending")
    /\ updatedIn(t, tabs[t].prescriptions[k].id,
                 [verification |-> [approved |-> approved, timestamp |-> clock],
                  status |-> IF approved THEN "verified" ELSE "rejected",
                  updatedAt |-> clock], reach)
    /\ UNCHANGED <<envVars, remoteVars, storage, calls, nids, uiVars, pageVars>>

\* handleStatusChange(id, 'dispensed') on entry k (PrescriptionManagement 245-254,
\* client.tsx 392-405)
HandleStatusChange(t, k, reach) ==
    /\ shown(t, k, "verified")
    /\ updatedIn(t, tabs[t].prescriptions[k].id,
                 [status |-> "dispensed", updatedAt |-> clock], reach)
    /\ UNCHANGED <<envVars, remoteVars, storage, calls, nids, uiVars, pageVars>>

\* handleAddPrescription with a form the validator accepts: POST /prescriptions
\* refuses what the screen sends, so addPrescription runs its catch (PrescriptionManagement
\* 187-208, client.tsx 372-390).  The first session adds one prescription.
AddPrescriptionIn(t, reach) ==
    LET prescription == newPrescription([patientName |-> Customer, doctorName |-> Ab],
                                        nids + 1)
        data == storageAdd(thisData(t), "prescriptions", prescription)
    IN /\ tabs[t].data # Null
       /\ t = 1 /\ nids = 0
       /\ tabs' = [tabs EXCEPT ![t] = [data |-> data,
                                       prescriptions |-> listedPrescriptions(data, reach)]]
       /\ localStorage' = data
       /\ nids' = nids + 1
       /\ UNCHANGED <<envVars, remoteVars, storage, calls, uiVars, pageVars>>

\* the schema is installed, so a list read that reaches the server is answered with
\* the rows of rx
InitTabs ==
    /\ InitCommon
    /\ nids = 0
    /\ dbInit = TRUE
    /\ meds = InitMeds(MaxStock)
    /\ storage = InitStorage(MaxStock)

NextTabs ==
    \/ \E t \in Tabs : OpenTab(t)
    \/ \E t \in Tabs, reach \in BOOLEAN : LoadPrescriptions(t, reach)
    \/ \E t \in Tabs, approved \in BOOLEAN, reach \in BOOLEAN :
          \E k \in 1..Len(tabs[t].prescriptions) :
             HandleVerifyPrescription(t, k, approved, reach)
    \/ \E t \in Tabs, reach \in BOOLEAN : \E k \in 1..Len(tabs[t].prescriptions) :
          HandleStatusChange(t, k, reach)
    \/ \E t \in Tabs, reach \in BOOLEAN : AddPrescriptionIn(t, reach)

SpecTabs == InitTabs /\ [][NextTabs]_vars

-----------------------------------------------------------------------------
(* Claims about browser sessions *)

StatusSteps ==
    {<<"pending", "verified">>, <<"pending", "rejected">>, <<"verified", "dispensed">>}

StoredStatus(blob, id) == blob.prescriptions[findIndex(blob.prescriptions, id, 1)].status

StoredIds(blob) == {blob.prescriptions[i].id : i \in 1..Len(blob.prescriptions)}

\* C22: in every step, the status of a prescription of the stored item either stays
\* or moves along pending -> verified, pending -> rejected or verified -> dispensed.
C22_StatusWorkflow ==
    [][(localStorage # Null /\ localStorage' # Null)
       => \A id \in StoredIds(localStorage) \cap StoredIds(localStorage') :
             \/ StoredStatus(localStorage', id) = StoredStatus(localStorage, id)
             \/ <<StoredStatus(localStorage, id), StoredStatus(localStorage', id)>>
                   \in StatusSteps]_vars

\* C25: a session's copy of the store changes only by that session's own write, which is
\* computed from the copy and not from the stored item (no record comes in but the one
\* the write adds), is saved whole as the stored item, and leaves the copies of the
\* other sessions as they were.
C25_WholeCopyPersisted ==
    [][\A t \in Tabs :
          (tabs[t].data # Null /\ tabs'[t].data # tabs[t].data)
          => /\ localStorage' = tabs'[t].data
             /\ StoredIds(tabs'[t].data)
                   \subseteq StoredIds(tabs[t].data) \cup {generateId(nids + 1)}
             /\ \A u \in Tabs \ {t} : tabs'[u].data = tabs[u].data]_vars

\* a session holds a prescription it saved, and the stored item no longer has it
C25_Witness ==
    \E t \in Tabs :
       /\ tabs[t].data # Null
       /\ ~(StoredIds(tabs[t].data) \subseteq StoredIds(localStorage))

-----------------------------------------------------------------------------
(* Claims about prescriptions *)

\* C23: when verifyPrescription(id, v) has resolved with the updated prescription and
\* the next call is a getPrescriptions that resolves, the list it returns holds
\* prescription id with status 'verified' when v.approved and 'rejected' otherwise.
C23_VerifiedThenListed ==
    \A c, d \in Calls :
       ( /\ d = c + 1
         /\ Done(c) /\ calls[c].op = "verifyPrescription" /\ calls[c].ok
         /\ calls[c].value.prescription # Null
         /\ Done(d) /\ calls[d].op = "getPrescriptions" /\ calls[d].ok )
       => \E i \in 1..Len(calls[d].value.prescriptions) :
             LET entry == calls[d].value.prescriptions[i]
             IN /\ entry.id = calls[c].id
                /\ "status" \in DOMAIN entry
                /\ entry.status = IF calls[c].arg.approved THEN "verified" ELSE "rejected"

-----------------------------------------------------------------------------
(* Claims about updateMedicine *)

\* the column of meds that holds a field of the client's medicine
ColumnOf ==
    [name |-> "name", category |-> "cat", manufacturer |-> "mfg", stock |-> "stock",
     minStock |-> "min_stock", maxStock |-> "max_stock", price |-> "price",
     strength |-> "strength"]

\* record new has the fields of old, other than those of except, with their values
Kept(old, new, except) ==
    \A f \in DOMAIN old \ except : f \in DOMAIN new /\ new[f] = old[f]

\* C24: in the step in which updateMedicine(id, updates) resolves, on the remote path
\* the row id of meds keeps every column but `updated` and those of the fields of
\* updates, and the other rows stay; on the local path the medicine id of the store
\* keeps every field but updatedAt and those of updates, and the other medicines stay.
C24_UpdateFrame ==
    [][\A c \in Calls :
          (calls[c].pc = "idle" /\ calls'[c].pc = "done" /\ calls'[c].op = "updateMedicine")
          => LET id == calls'[c].id
                 updates == calls'[c].arg
             IN IF calls'[c].path = "remote"
                THEN /\ \A other \in DOMAIN meds \ {id} : meds'[other] = meds[other]
                     /\ Kept(meds[id], meds'[id],
                             {"updated"} \cup {ColumnOf[f] : f \in DOMAIN updates})
                     /\ storage' = storage
                ELSE /\ meds' = meds
                     /\ Len(storage'.medicines) = Len(storage.medicines)
                     /\ \A k \in 1..Len(storage.medicines) :
                           IF storage.medicines[k].id = id
                           THEN Kept(storage.medicines[k], storage'.medicines[k],
                                     {"updatedAt"} \cup DOMAIN updates)
                           ELSE storage'.medicines[k] = storage.medicines[k]]_vars

-----------------------------------------------------------------------------
(* Claims about the database setup notice *)

\* C28: the setup notice shows 'success' only when the table meds exists; with the
\* table missing, an attempt ends in 'manual_required'.
C28_SuccessOnlyWhenInstalled ==
    /\ setupStatus = "success" => dbInit
    /\ (~dbInit /\ setupStatus # "pending") => setupStatus = "manual_required"

-----------------------------------------------------------------------------
(* Claims about the cart *)

\* C29: no two lines of the cart are of the same medicine, and the quantity of each
\* line is at least 1 and at most the stock the line records.
C29_CartWithinStock ==
    \A i \in 1..Len(cart) :
       /\ \A j \in 1..Len(cart) : cart[j].medicineId = cart[i].medicineId => j = i
       /\ cart[i].quantity >= 1
       /\ "stock" \in DOMAIN cart[i]
       /\ cart[i].quantity <= cart[i].stock

\* two lines, one of them filled up to its stock by the + buttons
C29_Witness ==
    /\ Len(cart) = 2
    /\ \E i \in 1..Len(cart) : cart[i].quantity = cart[i].stock /\ cart[i].quantity >= 2


-----------------------------------------------------------------------------
(* Claims about the sample data added at login *)

\* the positions of the local store's list `key` that hold the sample `s`, compared
\* on the fields `fields` that initializeDatabase copies from it
CopiesOf(key, s, fields) ==
    {i \in 1..Len(storage[key]) : Pick(storage[key][i], fields) = Pick(s, fields)}

\* C30: initializeDatabase adds sample records only when getMedicines reports no
\* medicine, and a later run adds nothing, so that no sample medicine and no sample
\* prescription is ever stored twice: whenever a run of initializeDatabase has added
\* its records, the local store holds each sample prescription once and each sample
\* medicine once.
C30_SamplesStoredOnce ==
    [][storage'.prescriptions # storage.prescriptions
         => /\ \A k \in 1..Len(samplePrescriptions) :
                  Cardinality(CopiesOf("prescriptions", samplePrescriptions[k],
                                       {"patientName", "doctorName"})') <= 1
            /\ \A k \in 1..Len(toInitialize) :
                  Cardinality(CopiesOf("medicines", toInitialize[k], {"name"})') <= 1]_vars

=============================================================================
